---- MODULE Spec2Model ----
(***************************************************************************)
(* Model of the rush-lib build flow: the TaskRunner (parallel DAG          *)
(* scheduler) and the ProjectBuildTask (incremental build of one project). *)
(* Both classes live in src/apps/rush-lib/src/data/RushConfigurationProject.ts *)
(* (the file holds several concatenated sources).                          *)
(***************************************************************************)
EXTENDS Integers, Sequences, FiniteSets, TLC

(* ---- bounds ---- *)
MaxTasks == 3          \* tasks registered in the general specification
MaxParallelism == 2    \* largest parallelism passed to the constructor
MaxDependencies == 5   \* dependencies registered in the general specification

(* ---- TaskStatus ---- *)
Ready == "Ready"
Executing == "Executing"
Success == "Success"
SuccessWithWarning == "SuccessWithWarning"
Skipped == "Skipped"
Blocked == "Blocked"
Failure == "Failure"

TaskStatus == {Ready, Executing, Success, SuccessWithWarning, Skipped, Blocked, Failure}

\* the values a task's promise resolves with (the cases of the switch)
ResolveResults == {Success, SuccessWithWarning, Skipped, Failure}

\* _getNextTask returns undefined
NoTask == 0

\* Math.max() of no arguments
NegInfinity == -1000

VARIABLES
  tasks,                     \* _tasks: the names, in Map insertion order
  dependencies,              \* task.dependencies
  dependents,                \* task.dependents
  status,                    \* task.status
  criticalPathLength,        \* task.criticalPathLength (undefined = not in the domain)
  isIncrementalBuildAllowed, \* task.isIncrementalBuildAllowed
  buildQueue,                \* _buildQueue
  hasAnyFailures,            \* _hasAnyFailures
  parallelism,               \* _parallelism
  currentActiveTasks,        \* _currentActiveTasks
  promise,                   \* the promise of execute(): none, pending, resolved, rejected, thrown
  startOrder,                \* the "> Starting task [..]" lines, in order
  blockedCount               \* the number of "blocked by" lines per task

runnerVars == <<tasks, dependencies, dependents, status, criticalPathLength,
                isIncrementalBuildAllowed, buildQueue, hasAnyFailures, parallelism,
                currentActiveTasks, promise, startOrder, blockedCount>>

(* the state of one project folder and of the ProjectBuildTask built in it *)
VARIABLES
  packageDepsFile,           \* <project>/package-deps.json: <<>> when absent, else <<content>>
  buildCommand,              \* buildCommand of the running _executeTask, a list of words
  currentPackageDeps,        \* currentPackageDeps of _executeTask: <<>> when undefined
  taskIncrementalAllowed,    \* this.isIncrementalBuildAllowed of the ProjectBuildTask
  hasWarningOrError,         \* _hasWarningOrError
  childProcess,              \* the build command's process: none, running
  taskResult,                \* the promise of ProjectBuildTask.execute(): none, pending,
                             \* a TaskStatus it resolved with, or rejected
  events,                    \* what the last execute() did to the folder, in order
  closed                     \* what the 'close' handler saw: <<>> before the process
                             \* closes, else <<[code, errorCount]>>

buildVars == <<packageDepsFile, buildCommand, currentPackageDeps, taskIncrementalAllowed,
               hasWarningOrError, childProcess, taskResult, events, closed>>

(* the workspace and the common/temp folder that the install planner
   (InstallManager.createTempModulesAndCheckShrinkwrap) reads and writes *)
VARIABLES
  rushProjects,              \* rushConfiguration.projects: package name -> the project's
                             \* package.json and cyclicDependencyProjects
  pinnedVersions,            \* rushConfiguration.pinnedVersions, an ordered map
  committedShrinkwrap,       \* common/npm-shrinkwrap.json: <<>> or <<[json, mtime]>>
  committedNpmrc,            \* common/.npmrc exists
  tempShrinkwrap,            \* common/temp/npm-shrinkwrap.json: <<>> or <<json>>
  tempNpmrc,                 \* common/temp/.npmrc exists
  tarballs,                  \* common/temp/projects/<name>.tgz per project:
                             \* <<>> or <<[packageJson, mtime]>>
  commonPackageJsonFile,     \* common/temp/package.json: <<>> or <<[json, mtime]>>
  planResult,                \* the last createTempModulesAndCheckShrinkwrap call: <<>> or
                             \* <<[shrinkwrapFile, shrinkwrapIsValid, updated, saved]>>
  inputsChanged,             \* a manifest, a pin or the lockfile changed since that call
  compatible,                \* the last hasCompatibleDependency call and what it returned
  clock                      \* the file system's time

plannerVars == <<rushProjects, pinnedVersions, committedShrinkwrap, committedNpmrc,
                 tempShrinkwrap, tempNpmrc, tarballs, commonPackageJsonFile, planResult,
                 inputsChanged, compatible, clock>>

(* the folders and flag files that InstallManager.installCommonModules works on *)
VARIABLES
  marker,                    \* common/temp/last-install.flag: <<>> or <<mtime>>
  rushLinkJson,              \* the "rush link" flag file (rush-link.json) exists
  nodeModules,               \* common/temp/node_modules: <<>> or <<[content, mtime]>>
  npmCacheFolders,           \* the npm cache and npm-tmp folders exist
  install,                   \* the running installCommonModules call: its position and
                             \* its locals
  installEvents,             \* what the last installCommonModules call did, in order
  flow,                      \* how far "plan, then install" got since an input of it
                             \* last changed: none, planned, done, replanned, redone
  rebuild                    \* the last "rush rebuild"/"rush build": none, thrown, started

installerVars == <<marker, rushLinkJson, nodeModules, npmCacheFolders, install,
                   installEvents, flow, rebuild>>

installVars == <<plannerVars, installerVars>>

(* a version policy, the package.json handed to its ensure method and what the
   call gave *)
VARIABLES
  policy,                    \* <<>> or <<[definitionName, version, nextBump, lockedMajor]>>
  policyProject,             \* <<>> or <<[name, version]>>, the package.json
  ensured,                   \* <<>> or <<[outcome, packageJson]>>, the result of ensure
  validated,                 \* <<>> or <<[versionString, outcome]>>, the result of validate
  bumped                     \* <<>> or <<[previous, bumpType, outcome]>>: the last bump

policyVars == <<policy, policyProject, ensured, validated, bumped>>

(* the workspace and the change files that findChangeRequests works on, and
   what it and ChangeFiles.deleteAll gave *)
VARIABLES
  allPackages,               \* <<>> or the projects of the workspace by package name
  changeFiles,               \* the change files of the changes folder: each a list of changes
  publishOptions,            \* <<>> or <<[prereleaseToken, projectsToExclude]>>
  allChanges,                \* <<>> or <<the hash that findChangeRequests returned>>
  deleted                    \* <<>> or <<[shouldDelete, updatedChangelogs, files, count]>>

changeVars == <<allPackages, changeFiles, publishOptions, allChanges, deleted>>

vars == <<runnerVars, buildVars, installVars, policyVars, changeVars>>

Range(s) == {s[i] : i \in DOMAIN s}

RemoveAt(s, i) == SubSeq(s, 1, i - 1) \o SubSeq(s, i + 1, Len(s))

MinOf(S) == CHOOSE x \in S : \A y \in S : x <= y

(* ---- constructor ---- *)
\* this._parallelism = parallelism || os.cpus().length
ConstructorParallelism(p, cpus) == IF p = 0 THEN cpus ELSE p

RunnerInit ==
  /\ tasks = <<>>
  /\ dependencies = <<>>
  /\ dependents = <<>>
  /\ status = <<>>
  /\ criticalPathLength = <<>>
  /\ isIncrementalBuildAllowed = <<>>
  /\ buildQueue = <<>>
  /\ hasAnyFailures = FALSE
  /\ parallelism \in {ConstructorParallelism(p, c) : p \in 0..MaxParallelism, c \in 1..MaxParallelism}
  /\ currentActiveTasks = 0
  /\ promise = "none"
  /\ startOrder = <<>>
  /\ blockedCount = <<>>

\* a project folder that was never built, and no build task
NoBuildTask ==
  /\ packageDepsFile = <<>>
  /\ buildCommand = <<>>
  /\ currentPackageDeps = <<>>
  /\ taskIncrementalAllowed = FALSE
  /\ hasWarningOrError = FALSE
  /\ childProcess = "none"
  /\ taskResult = "none"
  /\ events = <<>>
  /\ closed = <<>>

\* no change files are being processed
NoChangeRequests ==
  /\ allPackages = <<>>
  /\ changeFiles = <<>>
  /\ publishOptions = <<>>
  /\ allChanges = <<>>
  /\ deleted = <<>>

\* no version policy is loaded
NoPolicy ==
  /\ policy = <<>>
  /\ policyProject = <<>>
  /\ ensured = <<>>
  /\ validated = <<>>
  /\ bumped = <<>>

\* no workspace is being installed
NoInstall ==
  /\ rushProjects = <<>>
  /\ pinnedVersions = <<>>
  /\ compatible = <<>>
  /\ committedShrinkwrap = <<>>
  /\ committedNpmrc = FALSE
  /\ tempShrinkwrap = <<>>
  /\ tempNpmrc = FALSE
  /\ tarballs = <<>>
  /\ commonPackageJsonFile = <<>>
  /\ planResult = <<>>
  /\ inputsChanged = FALSE
  /\ clock = 0
  /\ marker = <<>>
  /\ rushLinkJson = FALSE
  /\ nodeModules = <<>>
  /\ npmCacheFolders = FALSE
  /\ install = [pc |-> "idle", installType |-> "none", markerFileExistedAtStart |-> FALSE,
                deletingNodeModules |-> FALSE, result |-> "none"]
  /\ installEvents = <<>>
  /\ flow = "none"
  /\ rebuild = "none"

(* ---- registration ---- *)
\* addTask: a duplicate name throws and changes nothing
AddTask(name, incremental) ==
  /\ promise = "none"
  /\ name \notin Range(tasks)
  /\ tasks' = Append(tasks, name)
  /\ dependencies' = (name :> {}) @@ dependencies
  /\ dependents' = (name :> {}) @@ dependents
  /\ status' = (name :> Ready) @@ status
  /\ isIncrementalBuildAllowed' = (name :> incremental) @@ isIncrementalBuildAllowed
  /\ blockedCount' = (name :> 0) @@ blockedCount
  /\ UNCHANGED <<criticalPathLength, buildQueue, hasAnyFailures, parallelism,
                 currentActiveTasks, promise, startOrder>>
  /\ UNCHANGED <<buildVars, installVars, policyVars, changeVars>>

\* addDependencies: every name is registered (an unregistered one throws)
AddDependencies(taskName, taskDependencies) ==
  /\ promise = "none"
  /\ taskName \in Range(tasks)
  /\ taskDependencies \subseteq Range(tasks)
  /\ dependencies' = [dependencies EXCEPT ![taskName] = @ \cup taskDependencies]
  /\ dependents' = [d \in DOMAIN dependents |->
                      IF d \in taskDependencies THEN dependents[d] \cup {taskName}
                                                ELSE dependents[d]]
  /\ UNCHANGED <<tasks, status, criticalPathLength, isIncrementalBuildAllowed, buildQueue,
                 hasAnyFailures, parallelism, currentActiveTasks, promise, startOrder,
                 blockedCount>>
  /\ UNCHANGED <<buildVars, installVars, policyVars, changeVars>>

(* ---- _checkForCyclicDependencies: TRUE when it throws ---- *)
\* a variant that takes every task below another one to be in the chain
InChainOrBelow(task, dependencyChain) == dependencyChain # <<>>

\* dependencyChain.indexOf(task.name) >= 0
InChain(task, dependencyChain) == task \in Range(dependencyChain)

RECURSIVE CheckForCyclicDependencies(_, _)
CheckForCyclicDependencies(taskSet, dependencyChain) ==
  \E task \in taskSet :
     \/ InChain(task, dependencyChain)
     \/ CheckForCyclicDependencies(dependents[task], Append(dependencyChain, task))

(* ---- _calculateCriticalPaths ---- *)
MathMax(numbers) ==
  IF numbers = <<>> THEN NegInfinity
  ELSE CHOOSE m \in Range(numbers) : \A n \in Range(numbers) : n <= m

NumberAdd(a, b) == IF a = NegInfinity \/ b = NegInfinity THEN NegInfinity ELSE a + b

\* depsLengths is declared empty and the forEach callback drops what it computes
DepsLengths(task) == <<>>

CalculateCriticalPaths(task) ==
  IF dependents[task] = {} THEN 0
  ELSE NumberAdd(MathMax(DepsLengths(task)), 1)

(* ---- the sort of execute() ---- *)
\* taskB.criticalPathLength - taskA.criticalPathLength; "NaN" for -Infinity - -Infinity
SortCompare(cpl, taskA, taskB) ==
  IF cpl[taskA] = NegInfinity /\ cpl[taskB] = NegInfinity THEN "NaN"
  ELSE IF cpl[taskB] = NegInfinity THEN "neg"
  ELSE IF cpl[taskA] = NegInfinity THEN "pos"
  ELSE IF cpl[taskB] - cpl[taskA] > 0 THEN "pos"
  ELSE IF cpl[taskB] - cpl[taskA] < 0 THEN "neg"
  ELSE "zero"

\* insertion of one element: it moves left past the elements that compare > 0 with it
RECURSIVE SortInsert(_, _, _)
SortInsert(cpl, sorted, element) ==
  IF sorted = <<>> THEN <<element>>
  ELSE IF SortCompare(cpl, sorted[Len(sorted)], element) = "pos"
       THEN Append(SortInsert(cpl, SubSeq(sorted, 1, Len(sorted) - 1), element),
                   sorted[Len(sorted)])
       ELSE Append(sorted, element)

RECURSIVE SortQueue(_, _)
SortQueue(cpl, queue) ==
  IF queue = <<>> THEN <<>>
  ELSE SortInsert(cpl, SortQueue(cpl, SubSeq(queue, 1, Len(queue) - 1)), queue[Len(queue)])

(* ---- the state the run works on, as a record ---- *)
RunnerState ==
  [status |-> status, dependencies |-> dependencies,
   isIncrementalBuildAllowed |-> isIncrementalBuildAllowed,
   buildQueue |-> buildQueue, hasAnyFailures |-> hasAnyFailures,
   currentActiveTasks |-> currentActiveTasks, promise |-> promise,
   startOrder |-> startOrder, blockedCount |-> blockedCount]

Commit(state) ==
  \E r \in {state} :
  /\ status' = r.status
  /\ dependencies' = r.dependencies
  /\ isIncrementalBuildAllowed' = r.isIncrementalBuildAllowed
  /\ buildQueue' = r.buildQueue
  /\ hasAnyFailures' = r.hasAnyFailures
  /\ currentActiveTasks' = r.currentActiveTasks
  /\ promise' = r.promise
  /\ startOrder' = r.startOrder
  /\ blockedCount' = r.blockedCount

(* ---- _getNextTask: the task returned (or NoTask) and the queue it leaves ---- *)
\* a variant that does not look at the dependencies
IsReadyToGoIgnoringDependencies(r, task) == r.status[task] = Ready

\* "this is a task which is ready to go"
IsReadyToGo(r, task) == r.dependencies[task] = {} /\ r.status[task] = Ready

RECURSIVE GetNextTaskFrom(_, _, _)
GetNextTaskFrom(r, queue, i) ==
  IF i > Len(queue) THEN [task |-> NoTask, queue |-> queue]
  ELSE LET task == queue[i] IN
       IF r.status[task] # Ready
         THEN GetNextTaskFrom(r, RemoveAt(queue, i), i)
       ELSE IF IsReadyToGo(r, task)
         THEN [task |-> task, queue |-> RemoveAt(queue, i)]
       ELSE GetNextTaskFrom(r, queue, i + 1)

GetNextTask(r) == GetNextTaskFrom(r, r.buildQueue, 1)

(* ---- _areAnyTasksReadyOrExecuting ---- *)
\* a variant that overlooks the tasks that are still Ready
AreAnyTasksExecuting(r) ==
  \E task \in Range(tasks) : r.status[task] = Executing

AreAnyTasksReadyOrExecuting(r) ==
  \E task \in Range(tasks) : r.status[task] = Executing \/ r.status[task] = Ready

\* complete() and reject() settle the promise; a settled promise stays as it is
Settle(r, outcome) ==
  IF r.promise = "pending" THEN [r EXCEPT !.promise = outcome] ELSE r

(* ---- _startAvailableTasks ---- *)
\* a variant that admits one task too many
MayStartAnotherOffByOne(r) == r.currentActiveTasks <= parallelism

\* the condition of the while loop
MayStartAnother(r) == r.currentActiveTasks < parallelism

RECURSIVE StartLoop(_)
StartLoop(r) ==
  IF ~MayStartAnother(r) THEN r
  ELSE LET next == GetNextTask(r) IN
       IF next.task = NoTask THEN [r EXCEPT !.buildQueue = next.queue]
       ELSE StartLoop([r EXCEPT !.buildQueue = next.queue,
                                !.currentActiveTasks = @ + 1,
                                !.status[next.task] = Executing,
                                !.startOrder = Append(@, next.task)])

StartAvailableTasks(r) ==
  StartLoop(IF ~AreAnyTasksReadyOrExecuting(r)
              THEN Settle(r, IF r.hasAnyFailures THEN "rejected" ELSE "resolved")
              ELSE r)

(* ---- _markTaskAsBlocked, _markTaskAsFailed ---- *)
RECURSIVE MarkTaskAsBlocked(_, _)
RECURSIVE MarkDependentsAsBlocked(_, _)

\* a variant without the guard
MayBlockAlways(r, task) == TRUE

\* the guard of _markTaskAsBlocked
MayBlock(r, task) == r.status[task] = Ready

MarkTaskAsBlocked(r, task) ==
  IF MayBlock(r, task)
    THEN MarkDependentsAsBlocked([r EXCEPT !.status[task] = Blocked,
                                           !.blockedCount[task] = @ + 1],
                                 dependents[task])
    ELSE r

\* task.dependents.forEach(dependent => this._markTaskAsBlocked(dependent, failedTask))
MarkDependentsAsBlocked(r, set) ==
  IF set = {} THEN r
  ELSE LET dependent == MinOf(set) IN
       MarkDependentsAsBlocked(MarkTaskAsBlocked(r, dependent), set \ {dependent})

\* a variant that marks the failed task itself as blocked
MarkTaskAsFailedBlocked(r, task) ==
  MarkDependentsAsBlocked([r EXCEPT !.status[task] = Blocked], dependents[task])

\* a variant that gives up on everything that has not started
MarkTaskAsFailedBlockingAll(r, task) ==
  [r EXCEPT !.status = [t \in DOMAIN @ |->
                          IF t = task THEN Failure
                          ELSE IF @[t] = Ready THEN Blocked ELSE @[t]],
            !.blockedCount = [t \in DOMAIN @ |->
                          IF t # task /\ r.status[t] = Ready THEN @[t] + 1 ELSE @[t]]]

MarkTaskAsFailed(r, task) ==
  MarkDependentsAsBlocked([r EXCEPT !.status[task] = Failure], dependents[task])

(* ---- _markTaskAsSuccess, _markTaskAsSuccessWithWarning, _markTaskAsSkipped ---- *)
\* a variant that leaves isIncrementalBuildAllowed of the dependents as it is
MarkTaskAsSuccessKeepingIncremental(r, task) ==
  [r EXCEPT !.status[task] = Success,
            !.dependencies =
                [d \in DOMAIN @ |-> IF d \in dependents[task] THEN @[d] \ {task} ELSE @[d]]]

MarkTaskAsSuccess(r, task) ==
  [r EXCEPT !.status[task] = Success,
            !.isIncrementalBuildAllowed =
                [d \in DOMAIN @ |-> IF d \in dependents[task] THEN FALSE ELSE @[d]],
            !.dependencies =
                [d \in DOMAIN @ |-> IF d \in dependents[task] THEN @[d] \ {task} ELSE @[d]]]

MarkTaskAsSuccessWithWarning(r, task) ==
  [r EXCEPT !.status[task] = SuccessWithWarning,
            !.isIncrementalBuildAllowed =
                [d \in DOMAIN @ |-> IF d \in dependents[task] THEN FALSE ELSE @[d]],
            !.dependencies =
                [d \in DOMAIN @ |-> IF d \in dependents[task] THEN @[d] \ {task} ELSE @[d]]]

\* a variant that forgets to release the dependents
MarkTaskAsSkippedKeepingDependencies(r, task) ==
  [r EXCEPT !.status[task] = Skipped]

\* a variant that invalidates the dependents as a success does
MarkTaskAsSkippedInvalidating(r, task) ==
  [MarkTaskAsSuccess(r, task) EXCEPT !.status[task] = Skipped]

MarkTaskAsSkipped(r, task) ==
  [r EXCEPT !.status[task] = Skipped,
            !.dependencies =
                [d \in DOMAIN @ |-> IF d \in dependents[task] THEN @[d] \ {task} ELSE @[d]]]

(* ---- execute() ---- *)
Execute ==
  /\ promise = "none"
  /\ IF CheckForCyclicDependencies(Range(tasks), <<>>)
       THEN /\ promise' = "thrown"
            /\ currentActiveTasks' = 0
            /\ UNCHANGED <<tasks, dependencies, dependents, status, criticalPathLength,
                           isIncrementalBuildAllowed, buildQueue, hasAnyFailures,
                           parallelism, startOrder, blockedCount>>
       ELSE LET cpl == [task \in Range(tasks) |-> CalculateCriticalPaths(task)]
                queue == SortQueue(cpl, buildQueue \o tasks)
            IN /\ criticalPathLength' = cpl
               /\ Commit(StartAvailableTasks([RunnerState EXCEPT !.currentActiveTasks = 0,
                                                                 !.buildQueue = queue,
                                                                 !.promise = "pending"]))
               /\ UNCHANGED <<tasks, dependents, parallelism>>
  /\ UNCHANGED <<buildVars, installVars, policyVars, changeVars>>

(* ---- the .then handler of a started task ---- *)
TaskResolved(task, result) ==
  /\ task \in Range(tasks)
  /\ status[task] = Executing
  /\ LET r0 == [RunnerState EXCEPT !.currentActiveTasks = @ - 1]
         r1 == CASE result = Success -> MarkTaskAsSuccess(r0, task)
                 [] result = SuccessWithWarning -> MarkTaskAsSuccessWithWarning(r0, task)
                 [] result = Skipped -> MarkTaskAsSkipped(r0, task)
                 [] result = Failure ->
                      MarkTaskAsFailed([r0 EXCEPT !.hasAnyFailures = TRUE], task)
     IN Commit(StartAvailableTasks(r1))
  /\ UNCHANGED <<tasks, dependents, criticalPathLength, parallelism>>
  /\ UNCHANGED <<buildVars, installVars, policyVars, changeVars>>

(* ---- the .catch handler of a started task ---- *)
TaskRejected(task) ==
  /\ task \in Range(tasks)
  /\ status[task] = Executing
  /\ LET r0 == [RunnerState EXCEPT !.currentActiveTasks = @ - 1,
                                   !.hasAnyFailures = TRUE]
     IN Commit(StartAvailableTasks(MarkTaskAsFailed(r0, task)))
  /\ UNCHANGED <<tasks, dependents, criticalPathLength, parallelism>>
  /\ UNCHANGED <<buildVars, installVars, policyVars, changeVars>>

(* ---- the general specification: any graph over up to MaxTasks tasks ---- *)
\* names are opaque, so the tasks are registered in the order 1, 2, 3, ...
Init == RunnerInit /\ NoBuildTask /\ NoInstall /\ NoPolicy /\ NoChangeRequests

\* and every task gets the caller's one _isIncrementalBuildAllowed (RebuildAction._registerTask)
RegisterTaskUpTo(limit) ==
  /\ Len(tasks) < limit
  /\ \E incremental \in BOOLEAN :
        /\ tasks # <<>> => incremental = isIncrementalBuildAllowed[tasks[1]]
        /\ AddTask(Len(tasks) + 1, incremental)

RegisterTask == RegisterTaskUpTo(MaxTasks)

\* the dependencies of a task are a set, so the order in which they are given
\* makes no difference to the state: they are given in ascending order
LaterDependency(taskName, dependencyName) ==
  \A t \in Range(tasks) : \A d \in dependencies[t] :
     t < taskName \/ (t = taskName /\ d < dependencyName)

\* the number of dependencies registered so far
RegisteredDependencies ==
  Cardinality({pair \in Range(tasks) \X Range(tasks) : pair[2] \in dependencies[pair[1]]})

\* the dependency lists are given one name at a time: the graph is any graph
\* of at most MaxDependencies dependencies, cycles included
RegisterDependencies ==
  /\ promise = "none"
  /\ RegisteredDependencies < MaxDependencies
  /\ \E taskName \in Range(tasks) : \E dependencyName \in Range(tasks) :
       /\ LaterDependency(taskName, dependencyName)
       /\ AddDependencies(taskName, {dependencyName})

TaskSettles ==
  \E task \in Range(tasks) :
     \/ \E result \in ResolveResults : TaskResolved(task, result)
     \/ TaskRejected(task)

Next ==
  \/ RegisterTask
  \/ RegisterDependencies
  \/ Execute
  \/ TaskSettles

Spec == Init /\ [][Next]_vars

(* ---- the graph as registered (dependents is never changed by the run) ---- *)
DirectDependencies(task) == {d \in Range(tasks) : task \in dependents[d]}

RECURSIVE Upstream(_, _)
Upstream(frontier, seen) ==
  LET more == (UNION {DirectDependencies(t) : t \in frontier}) \ seen
  IN IF more = {} THEN seen ELSE Upstream(more, seen \cup more)

TransitiveDependencies(task) == Upstream({task}, {})

RECURSIVE Downstream(_, _)
Downstream(frontier, seen) ==
  LET more == (UNION {dependents[t] : t \in frontier}) \ seen
  IN IF more = {} THEN seen ELSE Downstream(more, seen \cup more)

TransitiveDependents(task) == Downstream({task}, {})

Succeeded == {Success, SuccessWithWarning, Skipped}

ExecuteCount(task) == Cardinality({i \in DOMAIN startOrder : startOrder[i] = task})

Running == promise \in {"pending", "resolved", "rejected"}

NothingExecuting == \A t \in Range(tasks) : status[t] # Executing

(* C1: a task goes from Ready to Executing only when every task it transitively
   depends on has status Success, SuccessWithWarning or Skipped. *)
Thm_C1 ==
  [][\A t \in Range(tasks) :
       (status[t] = Ready /\ status'[t] = Executing)
         => \A d \in TransitiveDependencies(t) : status'[d] \in Succeeded]_vars

Wit_C1 ==
  \E t \in Range(tasks) :
     /\ status[t] = Executing
     /\ \E d \in TransitiveDependencies(t) : d \notin DirectDependencies(t)

(* C2: no task's execute() is invoked more than once, and when the run is over
   (nothing is executing any more) every task whose transitive dependencies all
   finished with Success, SuccessWithWarning or Skipped was executed exactly once. *)
Thm_C2 ==
  /\ \A t \in Range(tasks) : ExecuteCount(t) <= 1
  /\ (Running /\ NothingExecuting)
       => \A t \in Range(tasks) :
            (\A d \in TransitiveDependencies(t) : status[d] \in Succeeded)
              => ExecuteCount(t) = 1

Wit_C2 ==
  /\ promise = "resolved"
  /\ Len(tasks) = MaxTasks
  /\ \E t \in Range(tasks) : Cardinality(TransitiveDependencies(t)) >= 2 /\ ExecuteCount(t) = 1

(* C3: every task that transitively depends on a task with status Failure has
   status Blocked, was marked Blocked exactly once and was never executed. *)
Thm_C3 ==
  \A f \in Range(tasks) :
     status[f] = Failure
       => \A t \in TransitiveDependents(f) :
             /\ status[t] = Blocked
             /\ blockedCount[t] = 1
             /\ ExecuteCount(t) = 0

\* a failed task with a dependent that is reached along two paths
Wit_C3 ==
  \E f \in Range(tasks) :
     /\ status[f] = Failure
     /\ \E a, b \in dependents[f] : a # b /\ b \in dependents[a] /\ status[b] = Blocked

(* C4: the number of tasks with status Executing never exceeds the parallelism. *)
Thm_C4 ==
  Cardinality({t \in Range(tasks) : status[t] = Executing}) <= parallelism

\* the limit is what keeps a startable task waiting
Wit_C4 ==
  /\ Cardinality({t \in Range(tasks) : status[t] = Executing}) = parallelism
  /\ \E t \in Range(tasks) : status[t] = Ready /\ dependencies[t] = {}

(* C8: when a task finishes with Success or SuccessWithWarning every direct
   dependent gets isIncrementalBuildAllowed = FALSE; when it finishes Skipped the
   dependents' isIncrementalBuildAllowed is unchanged; in all three cases the task
   is removed from the dependency set of each dependent. *)
Thm_C8 ==
  [][\A t \in Range(tasks) :
       (status[t] = Executing /\ status'[t] \in Succeeded)
         => \A d \in dependents[t] :
               /\ t \notin dependencies'[d]
               /\ status'[t] \in {Success, SuccessWithWarning}
                    => isIncrementalBuildAllowed'[d] = FALSE
               /\ status'[t] = Skipped
                    => isIncrementalBuildAllowed'[d] = isIncrementalBuildAllowed[d]]_vars

\* a skipped task whose dependent is still allowed to build incrementally,
\* next to a succeeded task whose dependent no longer is
Wit_C8 ==
  /\ \E t \in Range(tasks) : \E d \in dependents[t] :
        status[t] = Skipped /\ isIncrementalBuildAllowed[d] /\ t \notin dependencies[d]
  /\ \E t \in Range(tasks) : \E d \in dependents[t] :
        status[t] \in {Success, SuccessWithWarning} /\ ~isIncrementalBuildAllowed[d]

(* ---- the specification of the liveness claims ---- *)
MaxLiveTasks == 2      \* tasks registered in the specification with fairness

LiveInit == Init

LiveRegisterTask == RegisterTaskUpTo(MaxLiveTasks)

LiveNext ==
  \/ LiveRegisterTask
  \/ RegisterDependencies
  \/ Execute
  \/ TaskSettles

\* every started task eventually settles: its .then or .catch handler runs
LiveSpec == LiveInit /\ [][LiveNext]_vars /\ WF_vars(TaskSettles)

(* C5: for an acyclic graph whose started tasks all settle, the promise of
   execute() eventually settles; when it is settled no task is Ready or
   Executing, and it is resolved exactly when no task has status Failure. *)
Thm_C5 ==
  /\ [](promise \in {"resolved", "rejected"}
          => /\ \A t \in Range(tasks) : status[t] \notin {Ready, Executing}
             /\ (promise = "resolved") <=> (\A t \in Range(tasks) : status[t] # Failure))
  /\ (promise = "pending") ~> (promise \in {"resolved", "rejected"})

Wit_C5 ==
  /\ promise = "rejected"
  /\ Len(tasks) = MaxLiveTasks
  /\ \E t \in Range(tasks) : status[t] = Blocked

StartIndex(task) == CHOOSE i \in DOMAIN startOrder : startOrder[i] = task

(* C6: the step in which a task fails leaves the Executing tasks Executing and
   the Ready tasks that do not depend on it Ready or started, and does not
   settle the promise while a task is Ready or Executing; the promise is
   rejected only when every task has ended, the tasks that depend on no failed
   task with a status other than Blocked; and after a failure the promise is
   eventually rejected. *)
Thm_C6 ==
  /\ [][\A f \in Range(tasks) :
          (status[f] = Executing /\ status'[f] = Failure)
            => /\ \A t \in Range(tasks) \ {f} :
                     status[t] = Executing => status'[t] = Executing
               /\ \A t \in Range(tasks) \ TransitiveDependents(f) :
                     status[t] = Ready => status'[t] \in {Ready, Executing}
               /\ (\E t \in Range(tasks) : status'[t] \in {Ready, Executing})
                     => promise' = "pending"]_vars
  /\ [](promise = "rejected"
          => \A t \in Range(tasks) :
                /\ status[t] \notin {Ready, Executing}
                /\ status[t] = Blocked
                     => \E f \in TransitiveDependencies(t) : status[f] = Failure)
  /\ hasAnyFailures ~> (promise = "rejected")

\* with one process at a time: a task was started after another one had failed, and succeeded
Wit_C6 ==
  /\ promise = "rejected"
  /\ parallelism = 1
  /\ \E f, t \in Range(tasks) :
        /\ status[f] = Failure
        /\ status[t] \in Succeeded
        /\ StartIndex(t) > StartIndex(f)

(* ---- the scenario of the critical-path claim ---- *)
\* T1 -> T3, T2 -> T3, T3 -> T5, T4 -> T5: the dependencies of each task
ScenarioDependencies == <<{}, {}, {1, 2}, {}, {3, 4}>>

ScenarioTasks == DOMAIN ScenarioDependencies

ScenarioParallelism == 2

ScenarioInit ==
  /\ RunnerInit
  /\ parallelism = ScenarioParallelism
  /\ NoBuildTask
  /\ NoInstall
  /\ NoPolicy
  /\ NoChangeRequests

\* the tasks are registered in any order
ScenarioRegisterTask ==
  \E name \in ScenarioTasks : AddTask(name, FALSE)

ScenarioRegisterDependencies ==
  /\ Range(tasks) = ScenarioTasks
  /\ \E taskName \in ScenarioTasks :
        /\ dependencies[taskName] # ScenarioDependencies[taskName]
        /\ AddDependencies(taskName, ScenarioDependencies[taskName])

ScenarioExecute ==
  /\ Range(tasks) = ScenarioTasks
  /\ \A taskName \in ScenarioTasks : dependencies[taskName] = ScenarioDependencies[taskName]
  /\ Execute

ScenarioNext ==
  \/ ScenarioRegisterTask
  \/ ScenarioRegisterDependencies
  \/ ScenarioExecute
  \/ TaskSettles

ScenarioSpec == ScenarioInit /\ [][ScenarioNext]_vars

(* C7: in the scenario, with parallelism 2, the first two tasks started are T1
   and T2 (the tasks with the longest critical path), whatever the order in which
   the tasks were registered. *)
Orig_C7 ==
  Len(startOrder) >= 2 => {startOrder[1], startOrder[2]} = {1, 2}

\* the critical-path lengths of the scenario: T1 = T2 = 2, T3 = T4 = 1, T5 = 0
ScenarioCriticalPathLengths == <<2, 2, 1, 1, 0>>

(* C27: after the precomputation in execute(), the criticalPathLength of a
   task is 0 if it has no dependents and otherwise 1 plus the maximum
   criticalPathLength of its dependents; in the scenario this gives T5 = 0,
   T3 = 1, T4 = 1, T1 = 2, T2 = 2. *)
Orig_C27 ==
  criticalPathLength # <<>> =>
    /\ \A task \in ScenarioTasks :
         criticalPathLength[task] =
           IF dependents[task] = {} THEN 0
           ELSE 1 + CHOOSE m \in {criticalPathLength[d] : d \in dependents[task]} :
                      \A d \in dependents[task] : criticalPathLength[d] <= m
    /\ \A task \in ScenarioTasks :
         criticalPathLength[task] = ScenarioCriticalPathLengths[task]

(***************************************************************************)
(* ProjectBuildTask                                                        *)
(***************************************************************************)
MaxFiles == 1     \* tracked files of the project

FileNames == 1..MaxFiles

\* the content hashes a file goes through: before and after an edit
Hashes == {"H1", "H1'"}

\* the "files" object of IPackageDependencies: file name -> hash
FileMaps == UNION {[S -> Hashes] : S \in SUBSET FileNames}

\* packageJson.scripts[script] is undefined or null
ScriptUndefined == "undefined"

ScriptNames == {"clean", "test", "build"}

\* the scripts section of a package.json: each script is missing, blank or a command
ScriptSections ==
  [clean : {ScriptUndefined, "", "gulp clean"},
   test : {ScriptUndefined, "", "gulp test"},
   build : {ScriptUndefined, "", "gulp build"}]

ErrorDetectionMode == {"LocalBuild", "VisualStudioOnline"}

\* the constructor arguments that shape the command line: two of the sixteen
\* combinations, no flag set and every flag set
TaskFlags ==
  {[errorDisplayMode |-> "LocalBuild", production |-> FALSE,
    npmMode |-> FALSE, minimalMode |-> FALSE],
   [errorDisplayMode |-> "VisualStudioOnline", production |-> TRUE,
    npmMode |-> TRUE, minimalMode |-> TRUE]}

\* the exit code of the build command
ExitCodes == {0, 1}

\* the number of errors the ErrorDetector finds in the output
ErrorCounts == {0, 1}

(* ---- _getScriptCommand ---- *)
GetScriptCommand(scripts, script) == scripts[script]

\* a || b on script commands: undefined and '' are falsy
ScriptOr(a, b) == IF a # ScriptUndefined /\ a # "" THEN a ELSE b

(* ---- _getBuildCommand: the command line as a list of words; '' is <<>> ---- *)
BuildArgs(flags) ==
  <<IF flags.errorDisplayMode = "VisualStudioOnline" THEN "--no-color" ELSE "--color">>
  \o (IF flags.production THEN <<"--production">> ELSE <<>>)
  \o (IF flags.npmMode THEN <<"--npm">> ELSE <<>>)
  \o (IF flags.minimalMode THEN <<"--minimal">> ELSE <<>>)

GetBuildCommand(flags, scripts) ==
  LET build == ScriptOr(GetScriptCommand(scripts, "test"), GetScriptCommand(scripts, "build"))
  IN IF build = ScriptUndefined THEN [thrown |-> TRUE, command |-> <<>>]
     ELSE IF build = "" THEN [thrown |-> FALSE, command |-> <<>>]
     ELSE [thrown |-> FALSE, command |-> <<build>> \o BuildArgs(flags)]

(* ---- _getPackageDependencies: hashed is <<>> when getPackageDepsHash throws ---- *)
GetPackageDependencies(command, hashed) ==
  IF hashed = <<>> THEN <<>>
  ELSE <<[files |-> hashed[1], arguments |-> command]>>

(* ---- _areShallowEqual ---- *)
\* a variant without the second loop
AreShallowEqualOneWay(object1, object2) ==
  \A n \in DOMAIN object1 : n \in DOMAIN object2 /\ object1[n] = object2[n]

AreShallowEqual(object1, object2) ==
  /\ \A n \in DOMAIN object1 : n \in DOMAIN object2 /\ object1[n] = object2[n]
  /\ \A n \in DOMAIN object2 : n \in DOMAIN object1

(* ---- isPackageUnchanged ---- *)
IsPackageUnchanged(lastPackageDeps, current) ==
  /\ lastPackageDeps # <<>>
  /\ current # <<>>
  /\ current[1].arguments = lastPackageDeps[1].arguments
  /\ AreShallowEqual(current[1].files, lastPackageDeps[1].files)

\* a variant that leaves the previous file in place
KeepDepsFile(file) == file

\* "If the deps file exists, remove it before starting a build."
UnlinkDepsFile(file) == <<>>

(* ---- _executeTask up to the launch of the build command ---- *)
\* the result: the file, the promise, the process and what was done, in order
ExecuteTask(file, command, current, incremental, scripts, cleanThrows) ==
  IF IsPackageUnchanged(file, current) /\ incremental
    THEN [file |-> file, result |-> Skipped, process |-> "none", events |-> <<>>]
  ELSE
    LET unlinked == IF file # <<>> THEN <<"unlink">> ELSE <<>>
        removed == IF file # <<>> THEN UnlinkDepsFile(file) ELSE file
        cleanCommand == GetScriptCommand(scripts, "clean")
    IN IF cleanCommand = ScriptUndefined
         THEN [file |-> removed, result |-> "rejected", process |-> "none",
               events |-> unlinked \o <<"clean-missing">>]
       ELSE IF cleanCommand # "" /\ cleanThrows
         THEN [file |-> removed, result |-> "rejected", process |-> "none",
               events |-> unlinked \o <<"clean", "clean-failed">>]
       ELSE
         LET cleaned == unlinked \o
                        (IF cleanCommand = "" THEN <<"clean-blank">> ELSE <<"clean">>)
         IN IF command = <<>>
              THEN [file |-> removed, result |-> Success, process |-> "none",
                    events |-> cleaned \o <<"build-blank">>]
              ELSE [file |-> removed, result |-> "pending", process |-> "running",
                    events |-> cleaned \o <<"build">>]

(* ---- new ProjectBuildTask(...).execute(writer) ---- *)
TaskExecute(flags, incremental, scripts, hashed, cleanThrows) ==
  /\ childProcess = "none"
  /\ LET build == GetBuildCommand(flags, scripts)
         deps == GetPackageDependencies(build.command, hashed)
         done == ExecuteTask(packageDepsFile, build.command, deps, incremental,
                             scripts, cleanThrows)
     IN IF build.thrown
          THEN /\ taskResult' = "rejected"
               /\ events' = <<"build-missing">>
               /\ buildCommand' = <<>>
               /\ currentPackageDeps' = <<>>
               /\ UNCHANGED <<packageDepsFile, childProcess>>
          ELSE /\ taskResult' = done.result
               /\ events' = done.events
               /\ buildCommand' = build.command
               /\ currentPackageDeps' = deps
               /\ packageDepsFile' = done.file
               /\ childProcess' = done.process
  /\ taskIncrementalAllowed' = incremental
  /\ hasWarningOrError' = FALSE
  /\ closed' = <<>>
  /\ UNCHANGED <<runnerVars, installVars, policyVars, changeVars>>

(* ---- buildTask.stderr.on('data') ---- *)
StderrData ==
  /\ childProcess = "running"
  /\ hasWarningOrError' = TRUE
  /\ UNCHANGED <<packageDepsFile, buildCommand, currentPackageDeps, taskIncrementalAllowed,
                 childProcess, taskResult, events, closed>>
  /\ UNCHANGED <<runnerVars, installVars, policyVars, changeVars>>

(* ---- buildTask.on('close') ---- *)
\* a variant that looks at the exit code only
CloseResultIgnoringDiagnostics(code, errorCount, warned) ==
  IF code # 0 THEN "rejected"
  ELSE IF warned THEN SuccessWithWarning
  ELSE Success

CloseResult(code, errorCount, warned) ==
  IF code # 0 \/ errorCount > 0 THEN "rejected"
  ELSE IF warned THEN SuccessWithWarning
  ELSE Success

BuildClose(code, errorCount) ==
  /\ childProcess = "running"
  /\ LET result == CloseResult(code, errorCount, hasWarningOrError)
         saved == result = Success /\ currentPackageDeps # <<>>
     IN /\ taskResult' = result
        /\ packageDepsFile' = (IF saved THEN currentPackageDeps ELSE packageDepsFile)
        /\ events' = (IF saved THEN Append(events, "save") ELSE events)
  /\ childProcess' = "none"
  /\ closed' = <<[code |-> code, errorCount |-> errorCount]>>
  /\ UNCHANGED <<buildCommand, currentPackageDeps, taskIncrementalAllowed, hasWarningOrError>>
  /\ UNCHANGED <<runnerVars, installVars, policyVars, changeVars>>

(* ---- the specification of the build task: one project folder, built again and again ---- *)
NoTaskRunner ==
  /\ tasks = <<>>
  /\ dependencies = <<>>
  /\ dependents = <<>>
  /\ status = <<>>
  /\ criticalPathLength = <<>>
  /\ isIncrementalBuildAllowed = <<>>
  /\ buildQueue = <<>>
  /\ hasAnyFailures = FALSE
  /\ parallelism = 1
  /\ currentActiveTasks = 0
  /\ promise = "none"
  /\ startOrder = <<>>
  /\ blockedCount = <<>>

BuildInit == NoTaskRunner /\ NoBuildTask /\ NoInstall /\ NoPolicy /\ NoChangeRequests

BuildTaskRuns ==
  \E flags \in TaskFlags, incremental \in BOOLEAN, scripts \in ScriptSections,
     hashed \in {<<>>} \cup {<<files>> : files \in FileMaps}, cleanThrows \in BOOLEAN :
     \* only a clean command that is run can fail
     /\ cleanThrows => scripts.clean \notin {ScriptUndefined, ""}
     /\ TaskExecute(flags, incremental, scripts, hashed, cleanThrows)

BuildProcessCloses ==
  \E code \in ExitCodes, errorCount \in ErrorCounts : BuildClose(code, errorCount)

BuildNext ==
  \/ BuildTaskRuns
  \/ StderrData
  \/ BuildProcessCloses

BuildSpec == BuildInit /\ [][BuildNext]_vars

(* ---- the claims about the build task ---- *)
TaskSettled == taskResult \in {Success, SuccessWithWarning, Skipped, "rejected"}

FileExists == packageDepsFile # <<>>

(* C9 as stated: after a build task has ended, package-deps.json exists if and
   only if the task ended with Success. *)
Orig_C9 == TaskSettled => (FileExists <=> taskResult = Success)

(* C9, amended: after a build task has ended, package-deps.json exists if the
   task was Skipped, does not exist if it ended SuccessWithWarning or failed
   (unless it failed because neither a test nor a build script is declared,
   which leaves the folder as it was), and after Success exists exactly when the
   fingerprint could be computed and the build command is not blank. *)
Thm_C9 ==
  /\ taskResult = Skipped => FileExists
  /\ taskResult = SuccessWithWarning => ~FileExists
  /\ (taskResult = "rejected" /\ events # <<"build-missing">>) => ~FileExists
  /\ taskResult = Success
       => (FileExists <=> (currentPackageDeps # <<>> /\ buildCommand # <<>>))
  /\ FileExists => taskResult \in {Success, Skipped, "rejected"}

\* a build over a previous fingerprint failed, and a later one wrote a new fingerprint
Wit_C9 ==
  /\ taskResult = Success
  /\ events = <<"unlink", "clean", "build", "save">>
  /\ FileExists

\* the words of the claim: same keyset, an equal hash for every key, an equal command line
SameFingerprint(a, b) ==
  /\ DOMAIN a.files = DOMAIN b.files
  /\ \A k \in DOMAIN a.files : a.files[k] = b.files[k]
  /\ a.arguments = b.arguments

ScriptEvents(log) == SelectSeq(log, LAMBDA e : e # "unlink")

(* C10: execute() returns Skipped exactly when a previous fingerprint file
   exists, the current fingerprint could be computed, both have the same keyset,
   equal hashes and an equal command line, and isIncrementalBuildAllowed is true;
   it then invokes no script and leaves package-deps.json as it is. When both
   fingerprints exist and differ, the task takes the rebuild path: the clean
   step and then the build step (clean and build are both invoked, in this
   order, when both scripts are declared, not blank and clean succeeds). *)
Thm_C10 ==
  [][(childProcess = "none" /\ buildVars' # buildVars) =>
       LET bothExist == packageDepsFile # <<>> /\ currentPackageDeps' # <<>>
           same == bothExist /\ SameFingerprint(packageDepsFile[1], currentPackageDeps'[1])
           done == ScriptEvents(events')
       IN /\ (taskResult' = Skipped) <=> (same /\ taskIncrementalAllowed')
          /\ taskResult' = Skipped
               => /\ events' = <<>>
                  /\ packageDepsFile' = packageDepsFile
          /\ (bothExist /\ ~same)
               => /\ taskResult' # Skipped
                  /\ done # <<>> /\ done[1] \in {"clean", "clean-blank", "clean-missing"}
                  /\ \A i \in DOMAIN done : done[i] = "build" => i = 2
                  /\ (\A i \in DOMAIN done : done[i] \in {"clean", "build"})
                       => done = <<"clean", "build">>]_vars

\* an unchanged project was skipped
Wit_C10 ==
  /\ taskResult = Skipped
  /\ events = <<>>
  /\ FileExists
  /\ packageDepsFile = currentPackageDeps
  /\ DOMAIN packageDepsFile[1].files # {}

(***************************************************************************)
(* InstallManager: the install planner                                     *)
(***************************************************************************)
MaxProjects == 2  \* projects of the workspace

\* the package names of the workspace's projects, in the order of rush.json
ProjectNames == <<"a", "b", "c", "d">>

Projects == {ProjectNames[i] : i \in 1..MaxProjects}

\* rushProject.tempProjectName
TempProjectName(name) ==
  [a |-> "@rush-temp/a", b |-> "@rush-temp/b", c |-> "@rush-temp/c", d |-> "@rush-temp/d"][name]

\* a temp project of the lockfile that belongs to no project of rush.json
OrphanTempName == "@rush-temp/gone"

\* Utilities.parseScopedPackageName(key).scope
Scope(key) ==
  IF key \in {TempProjectName(ProjectNames[i]) : i \in DOMAIN ProjectNames} \cup {OrphanTempName}
    THEN "@rush-temp" ELSE ""

\* the order of Array.sort() and of localeCompare on the names in use
NameOrder ==
  <<"@rush-temp/a", "@rush-temp/b", "@rush-temp/c", "@rush-temp/d", "@rush-temp/gone",
    "a", "b", "c", "d", "x", "y">>

SortNames(names) == SelectSeq(NameOrder, LAMBDA n : n \in names)

(* ---- semver: versions are <<major, minor, patch>> ---- *)
CompareVersions(a, b) ==
  IF a[1] # b[1] THEN (IF a[1] < b[1] THEN -1 ELSE 1)
  ELSE IF a[2] # b[2] THEN (IF a[2] < b[2] THEN -1 ELSE 1)
  ELSE IF a[3] # b[3] THEN (IF a[3] < b[3] THEN -1 ELSE 1)
  ELSE 0

\* a specifier is [op, v]: "=" an exact version, "^" a caret range, ">=" a lower
\* bound; "git" stands for the specifiers that are not SemVer (git, tarball, tag)
Exact(v) == [op |-> "=", v |-> v]

Caret(v) == [op |-> "^", v |-> v]

GitSpecifier == [op |-> "git", v |-> <<0, 0, 0>>]

\* semver.satisfies(version, range); an invalid range satisfies nothing
Satisfies(version, range) ==
  CASE range.op = "=" -> CompareVersions(version, range.v) = 0
    [] range.op = ">=" -> CompareVersions(version, range.v) >= 0
    [] range.op = "^" ->
         /\ CompareVersions(version, range.v) >= 0
         /\ IF range.v[1] > 0 THEN version[1] = range.v[1]
            ELSE IF range.v[2] > 0 THEN version[1] = 0 /\ version[2] = range.v[2]
            ELSE version = range.v
    [] OTHER -> FALSE

\* npmPackageArg.resolve(name, range).type is 'version' or 'range'
IsSemVerSpecifier(range) == range.op \in {"=", ">=", "^"}

(* ---- JavaScript objects whose key order shows in the JSON text: a list of
        <<key, value>>; <<>> is also what stands for an undefined section ---- *)
ObjectHas(object, key) == \E i \in DOMAIN object : object[i][1] = key

ObjectGet(object, key) == object[CHOOSE i \in DOMAIN object : object[i][1] = key][2]

ObjectKeys(object) == {object[i][1] : i \in DOMAIN object}

\* object[key] = value
ObjectSet(object, key, value) ==
  IF ObjectHas(object, key)
    THEN [i \in DOMAIN object |-> IF object[i][1] = key THEN <<key, value>> ELSE object[i]]
    ELSE Append(object, <<key, value>>)

(* ---- collectImplicitlyPinnedVersions ---- *)
GetProjectByName(name) == name \in DOMAIN rushProjects

\* the pairs that _addDependenciesToMap adds for one project
DirectPairs(project) ==
  {pair \in Range(rushProjects[project].dependencies)
            \cup Range(rushProjects[project].devDependencies) :
     \/ ~GetProjectByName(pair[1])
     \/ pair[1] \in rushProjects[project].cyclicDependencyProjects
     \/ ~Satisfies(rushProjects[pair[1]].version, pair[2])}

DirectDependencyVersions(dependency) ==
  {pair[2] : pair \in {q \in UNION {DirectPairs(project) : project \in DOMAIN rushProjects} :
                         q[1] = dependency}}

ImplicitlyPinned ==
  {<<dependency, CHOOSE version \in DirectDependencyVersions(dependency) : TRUE>> :
     dependency \in {d \in UNION {{pair[1] : pair \in DirectPairs(project)} :
                                    project \in DOMAIN rushProjects} :
                       Cardinality(DirectDependencyVersions(d)) = 1}}

\* the implicit pins, overridden by rushConfiguration.pinnedVersions: name -> range
MergedPinnedVersions ==
  [dependency \in {pin[1] : pin \in ImplicitlyPinned} \cup ObjectKeys(pinnedVersions) |->
     IF ObjectHas(pinnedVersions, dependency) THEN ObjectGet(pinnedVersions, dependency)
     ELSE (CHOOSE pin \in ImplicitlyPinned : pin[1] = dependency)[2]]

(* ---- ShrinkwrapFile ---- *)
\* a variant that looks at the root of the lockfile only
HasCompatibleDependencyAtRoot(shrinkwrapJson, dependencyName, versionRange, tempProjectName) ==
  /\ dependencyName \in DOMAIN shrinkwrapJson.dependencies
  /\ IsSemVerSpecifier(versionRange)
       => Satisfies(shrinkwrapJson.dependencies[dependencyName].version, versionRange)

\* shrinkwrapJson.dependencies: name -> [version, dependencies: name -> [version]]
HasCompatibleDependency(shrinkwrapJson, dependencyName, versionRange, tempProjectName) ==
  LET root == shrinkwrapJson.dependencies
      nested == IF tempProjectName # "" /\ tempProjectName \in DOMAIN root
                  THEN root[tempProjectName].dependencies ELSE <<>>
      dependencyJson == IF dependencyName \in DOMAIN nested THEN <<nested[dependencyName]>>
                        ELSE IF dependencyName \in DOMAIN root THEN <<root[dependencyName]>>
                        ELSE <<>>
  IN IF dependencyJson = <<>> THEN FALSE
     ELSE IF IsSemVerSpecifier(versionRange)
       THEN Satisfies(dependencyJson[1].version, versionRange)
     ELSE TRUE

GetTempProjectNames(shrinkwrapJson) ==
  {key \in DOMAIN shrinkwrapJson.dependencies : Scope(key) = "@rush-temp"}

FindProjectByTempName(tempProjectName) ==
  \E project \in DOMAIN rushProjects : TempProjectName(project) = tempProjectName

(* ---- _findOrphanedTempProjects ---- *)
\* a variant that finds no orphan
FindNoOrphanedTempProjects(shrinkwrapJson) == FALSE

FindOrphanedTempProjects(shrinkwrapJson) ==
  \E tempProjectName \in GetTempProjectNames(shrinkwrapJson) :
     ~FindProjectByTempName(tempProjectName)

(* ---- createTempModulesAndCheckShrinkwrap: the stub of one project ---- *)
\* devDependencies first, then dependencies
Pairs(packageJson) == packageJson.devDependencies \o packageJson.dependencies

\* a variant that links without looking at cyclicDependencyProjects
IsLocallyLinkedIgnoringCyclic(rushProject, pair) ==
  /\ GetProjectByName(pair[1])
  /\ Satisfies(rushProjects[pair[1]].version, pair[2])

IsLocallyLinked(rushProject, pair) ==
  /\ GetProjectByName(pair[1])
  /\ pair[1] \notin rushProjects[rushProject].cyclicDependencyProjects
  /\ Satisfies(rushProjects[pair[1]].version, pair[2])

RECURSIVE AddPairs(_, _, _)
AddPairs(rushProject, tempPackageJson, pairs) ==
  IF pairs = <<>> THEN tempPackageJson
  ELSE LET pair == Head(pairs)
       IN AddPairs(rushProject,
                   IF IsLocallyLinked(rushProject, pair)
                     THEN [tempPackageJson EXCEPT
                             !.rushDependencies = ObjectSet(@, pair[1], pair[2])]
                     ELSE [tempPackageJson EXCEPT
                             !.dependencies = ObjectSet(@, pair[1], pair[2])],
                   Tail(pairs))

TempPackageJson(rushProject) ==
  AddPairs(rushProject,
           [name |-> TempProjectName(rushProject), version |-> "0.0.0", private |-> TRUE,
            dependencies |-> <<>>,
            optionalDependencies |-> rushProjects[rushProject].optionalDependencies,
            rushDependencies |-> <<>>],
           Pairs(rushProjects[rushProject]))

\* the pairs of one project whose lockfile entry is missing or incompatible
MissingPairs(shrinkwrapJson, rushProject) ==
  {pair \in Range(Pairs(rushProjects[rushProject])) :
     /\ ~IsLocallyLinked(rushProject, pair)
     /\ ~HasCompatibleDependency(shrinkwrapJson, pair[1], pair[2], TempProjectName(rushProject))}

(* ---- the verdict on the lockfile; shrinkwrapFile is <<>> when undefined ---- *)
ShrinkwrapIsValid(shrinkwrapFile) ==
  /\ shrinkwrapFile # <<>>
  /\ \A dependency \in DOMAIN MergedPinnedVersions :
        HasCompatibleDependency(shrinkwrapFile[1], dependency,
                                MergedPinnedVersions[dependency], "")
  /\ ~FindOrphanedTempProjects(shrinkwrapFile[1])
  /\ \A rushProject \in DOMAIN rushProjects : MissingPairs(shrinkwrapFile[1], rushProject) = {}

(* ---- common/temp/package.json ---- *)
\* `file:./projects/${rushProject.unscopedTempProjectName}.tgz`, as a specifier
TarballSpecifier(rushProject) ==
  [op |-> [a |-> "file:./projects/a.tgz", b |-> "file:./projects/b.tgz",
           c |-> "file:./projects/c.tgz", d |-> "file:./projects/d.tgz"][rushProject],
   v |-> <<0, 0, 0>>]

SortedRushProjects ==
  SelectSeq(NameOrder, LAMBDA n : \E project \in DOMAIN rushProjects : TempProjectName(project) = n)

ProjectOfTempName(tempProjectName) ==
  CHOOSE project \in DOMAIN rushProjects : TempProjectName(project) = tempProjectName

RECURSIVE AddPinnedVersions(_, _)
\* commonPackageJson.dependencies[dependency] = pinnedVersions.get(dependency), in order
AddPinnedVersions(object, keys) ==
  IF keys = <<>> THEN object
  ELSE AddPinnedVersions(ObjectSet(object, Head(keys), MergedPinnedVersions[Head(keys)]),
                         Tail(keys))

RECURSIVE AddTempProjects(_, _)
\* commonPackageJson.dependencies[tempProjectName] = "file:./projects/<name>.tgz", in order
AddTempProjects(object, keys) ==
  IF keys = <<>> THEN object
  ELSE AddTempProjects(ObjectSet(object, Head(keys),
                                 TarballSpecifier(ProjectOfTempName(Head(keys)))),
                       Tail(keys))

CommonPackageJson ==
  [name |-> "rush-common", version |-> "0.0.0", private |-> TRUE,
   description |-> "Temporary file generated by the Rush tool",
   dependencies |->
     AddTempProjects(AddPinnedVersions(<<>>, SortNames(DOMAIN MergedPinnedVersions)),
                     SortedRushProjects)]

(* ---- syncFile ---- *)
SyncFile(source, target) == source

(* ---- the stub archive: rewritten only when the package.json in it differs ---- *)
\* a variant that always writes a new archive
ShouldOverwriteAlways(tarball, tempPackageJson) == TRUE

ShouldOverwrite(tarball, tempPackageJson) ==
  ~(tarball # <<>> /\ tarball[1].packageJson = tempPackageJson)

\* JsonFile.save(json, file, { onlyIfChanged: true }) writes the file
SaveOnlyIfChanged(file, json) == ~(file # <<>> /\ file[1].json = json)

(* ---- createTempModulesAndCheckShrinkwrap(shrinkwrapFile) ---- *)
CreateTempModulesAndCheckShrinkwrap(shrinkwrapFile) ==
  LET updated == {rushProject \in DOMAIN rushProjects :
                    ShouldOverwrite(tarballs[rushProject], TempPackageJson(rushProject))}
      saved == SaveOnlyIfChanged(commonPackageJsonFile, CommonPackageJson)
  IN /\ tempShrinkwrap' = SyncFile(IF committedShrinkwrap = <<>> THEN <<>>
                                   ELSE <<committedShrinkwrap[1].json>>, tempShrinkwrap)
     /\ tempNpmrc' = SyncFile(committedNpmrc, tempNpmrc)
     /\ tarballs' = [rushProject \in DOMAIN rushProjects |->
                       IF rushProject \in updated
                         THEN <<[packageJson |-> TempPackageJson(rushProject), mtime |-> clock]>>
                         ELSE tarballs[rushProject]]
     /\ commonPackageJsonFile' =
          (IF saved THEN <<[json |-> CommonPackageJson, mtime |-> clock]>>
           ELSE commonPackageJsonFile)
     /\ planResult' = <<[shrinkwrapFile |-> shrinkwrapFile,
                         shrinkwrapIsValid |-> ShrinkwrapIsValid(shrinkwrapFile),
                         updated |-> updated, saved |-> saved]>>
     /\ inputsChanged' = FALSE
     /\ UNCHANGED <<compatible, rushProjects, pinnedVersions, committedShrinkwrap, committedNpmrc, clock>>

\* the planner found the lockfile valid: "rush install" goes on to install
FlowPlanned ==
  flow' = (CASE flow \in {"none", "planned"} -> "planned"
             [] flow \in {"done", "replanned", "redone"} -> "replanned")

(* ---- the workspaces the planner is checked on ---- *)
V1 == <<1, 0, 0>>

V2 == <<2, 0, 0>>

\* the project after this one in rush.json, the first after the last
NextProject(name) ==
  LET i == CHOOSE k \in 1..MaxProjects : ProjectNames[k] = name
  IN ProjectNames[(i % MaxProjects) + 1]

PackageJson(version, devDeps, deps, optionalDeps, cyclic) ==
  [version |-> version, devDependencies |-> devDeps, dependencies |-> deps,
   optionalDependencies |-> optionalDeps, cyclicDependencyProjects |-> cyclic]

\* package.json files and cyclicDependencyProjects of one project: no dependency,
\* a local one (satisfied or not, exempted or not), an external one (SemVer or
\* not, with an optional one), and one name in both sections
RushProjectChoices(name) ==
  LET other == NextProject(name)
  IN {PackageJson(V1, <<>>, <<>>, <<>>, {}),
      PackageJson(V1, <<>>, <<<<other, Caret(V1)>>>>, <<>>, {}),
      PackageJson(V1, <<>>, <<<<other, Caret(V1)>>>>, <<>>, {other}),
      PackageJson(V1, <<<<other, Caret(V1)>>>>, <<<<"x", Caret(V1)>>>>, <<>>, {}),
      PackageJson(V1, <<<<other, Caret(V1)>>, <<"x", Caret(V2)>>>>,
                  <<<<other, Caret(V2)>>>>, <<>>, {}),
      PackageJson(V2, <<<<other, Caret(V2)>>>>,
                  <<<<other, Caret(V1)>>, <<"x", Caret(V1)>>>>, <<>>, {other}),
      PackageJson(V1, <<>>, <<<<"x", GitSpecifier>>>>, <<<<"y", Caret(V1)>>>>, {})}

\* an entry of the lockfile
Locked(version, nested) == [version |-> version, dependencies |-> nested]

\* a lockfile: x at the root (or not), the projects' published versions at the
\* root (or not), x under the first project's temp project (or not), an orphan (or not)
ShrinkwrapJson(xRoot, published, xNested, orphan) ==
  [dependencies |->
     (IF xRoot = <<>> THEN <<>> ELSE "x" :> Locked(xRoot[1], <<>>))
     @@ (IF published THEN [name \in Projects |-> Locked(V1, <<>>)] ELSE <<>>)
     @@ [key \in {TempProjectName(name) : name \in Projects} |->
           Locked(<<0, 0, 0>>,
                  IF key = TempProjectName("a") /\ xNested # <<>>
                    THEN "x" :> Locked(xNested[1], <<>>) ELSE <<>>)]
     @@ (IF orphan THEN OrphanTempName :> Locked(<<0, 0, 0>>, <<>>) ELSE <<>>)]

ShrinkwrapChoices ==
  {ShrinkwrapJson(xRoot, published, <<>>, orphan) :
     xRoot \in {<<>>, <<V1>>, <<V2>>}, published \in BOOLEAN, orphan \in BOOLEAN}
  \cup {ShrinkwrapJson(xRoot, published, <<V2>>, FALSE) :
          xRoot \in {<<>>, <<V1>>, <<V2>>}, published \in BOOLEAN}

PinnedVersionsChoices == {<<>>, <<<<"x", Caret(V1)>>>>}

NoInstaller ==
  /\ marker = <<>>
  /\ rushLinkJson = FALSE
  /\ nodeModules = <<>>
  /\ npmCacheFolders = FALSE
  /\ install = [pc |-> "idle", installType |-> "none", markerFileExistedAtStart |-> FALSE,
                deletingNodeModules |-> FALSE, result |-> "none"]
  /\ installEvents = <<>>
  /\ flow = "none"
  /\ rebuild = "none"

\* any workspace, before the planner has run in it
PlannerInit ==
  /\ NoTaskRunner
  /\ NoBuildTask
  /\ NoPolicy
  /\ NoChangeRequests
  /\ NoInstaller
  /\ rushProjects \in [Projects -> UNION {RushProjectChoices(name) : name \in Projects}]
  /\ \A name \in Projects : rushProjects[name] \in RushProjectChoices(name)
  /\ pinnedVersions \in PinnedVersionsChoices
  /\ compatible = <<>>
  /\ committedShrinkwrap \in {<<>>} \cup {<<[json |-> json, mtime |-> 0]>> : json \in ShrinkwrapChoices}
  /\ committedNpmrc = TRUE
  /\ tempShrinkwrap = <<>>
  /\ tempNpmrc = FALSE
  /\ tarballs = [name \in Projects |-> <<>>]
  /\ commonPackageJsonFile = <<>>
  /\ planResult = <<>>
  /\ inputsChanged = FALSE
  /\ clock = 0

\* "rush install": the lockfile is loaded and handed to the planner
PlanWithShrinkwrap ==
  /\ install.pc = "idle"
  /\ rebuild = "none"
  /\ committedShrinkwrap # <<>>
  /\ CreateTempModulesAndCheckShrinkwrap(<<committedShrinkwrap[1].json>>)
  /\ IF ShrinkwrapIsValid(<<committedShrinkwrap[1].json>>) THEN FlowPlanned ELSE flow' = "none"
  /\ UNCHANGED <<marker, rushLinkJson, nodeModules, npmCacheFolders, install, installEvents,
                 rebuild>>
  /\ UNCHANGED <<policyVars, changeVars, runnerVars, buildVars>>

\* createTempModules(): the planner runs without a lockfile
PlanWithoutShrinkwrap ==
  /\ install.pc = "idle"
  /\ CreateTempModulesAndCheckShrinkwrap(<<>>)
  /\ UNCHANGED flow
  /\ UNCHANGED <<marker, rushLinkJson, nodeModules, npmCacheFolders, install, installEvents,
                 rebuild>>
  /\ UNCHANGED <<policyVars, changeVars, runnerVars, buildVars>>

PlannerNext ==
  \/ PlanWithShrinkwrap
  \/ PlanWithoutShrinkwrap

PlannerSpec == PlannerInit /\ [][PlannerNext]_vars

(* ---- the claims about the planner ---- *)
\* the stub in a project's archive
Stub(rushProject) == tarballs[rushProject][1].packageJson

\* the archives are those of the planner's last run over the present workspace
Planned == planResult # <<>> /\ ~inputsChanged

\* the condition of the claim, on the pair at position i of a project's pairs
Linkable(rushProject, i) ==
  LET pair == Pairs(rushProjects[rushProject])[i]
  IN /\ pair[1] \in DOMAIN rushProjects
     /\ Satisfies(rushProjects[pair[1]].version, pair[2])
     /\ pair[1] \notin rushProjects[rushProject].cyclicDependencyProjects

\* the range of the last pair of that name that is (or is not) linkable
LastRange(rushProject, name, linkable) ==
  LET pairs == Pairs(rushProjects[rushProject])
      last == CHOOSE i \in DOMAIN pairs :
                /\ pairs[i][1] = name /\ Linkable(rushProject, i) = linkable
                /\ \A j \in DOMAIN pairs :
                      (pairs[j][1] = name /\ Linkable(rushProject, j) = linkable) => j <= i
  IN pairs[last][2]

(* C16: for every (name, range) pair of a project's devDependencies and
   dependencies, the stub records the pair under rushDependencies exactly when
   a project of that name exists in the workspace, its version satisfies the
   range and the name is not among the consuming project's
   cyclicDependencyProjects; every other pair is recorded under the stub's
   dependencies; and the stub holds no other entry (where a name occurs twice
   in a section of the stub, the later pair's range is the one kept). *)
Thm_C16 ==
  Planned =>
    \A rushProject \in DOMAIN rushProjects :
       LET pairs == Pairs(rushProjects[rushProject])
           stub == Stub(rushProject)
       IN /\ \A i \in DOMAIN pairs :
                IF Linkable(rushProject, i)
                  THEN /\ ObjectHas(stub.rushDependencies, pairs[i][1])
                       /\ ObjectGet(stub.rushDependencies, pairs[i][1])
                            = LastRange(rushProject, pairs[i][1], TRUE)
                  ELSE /\ ObjectHas(stub.dependencies, pairs[i][1])
                       /\ ObjectGet(stub.dependencies, pairs[i][1])
                            = LastRange(rushProject, pairs[i][1], FALSE)
          /\ \A name \in ObjectKeys(stub.rushDependencies) :
                \E i \in DOMAIN pairs : pairs[i][1] = name /\ Linkable(rushProject, i)
          /\ \A name \in ObjectKeys(stub.dependencies) :
                \E i \in DOMAIN pairs : pairs[i][1] = name /\ ~Linkable(rushProject, i)

\* project a links b locally, and b keeps a, which it exempts as cyclic, as a dependency
Wit_C16 ==
  /\ Planned
  /\ ObjectHas(Stub("a").rushDependencies, "b")
  /\ ~ObjectHas(Stub("a").dependencies, "b")
  /\ "a" \in rushProjects["b"].cyclicDependencyProjects
  /\ ObjectHas(Stub("b").dependencies, "a")
  /\ ~ObjectHas(Stub("b").rushDependencies, "a")

(* ---- ShrinkwrapFile.hasCompatibleDependency, called on the committed lockfile ---- *)
\* the workspace has projects without dependencies; the lockfile is any of the choices
ShrinkwrapInit ==
  /\ NoTaskRunner
  /\ NoBuildTask
  /\ NoPolicy
  /\ NoChangeRequests
  /\ NoInstaller
  /\ rushProjects = [name \in Projects |-> PackageJson(V1, <<>>, <<>>, <<>>, {})]
  /\ pinnedVersions = <<>>
  /\ compatible = <<>>
  /\ committedShrinkwrap \in {<<[json |-> json, mtime |-> 0]>> : json \in ShrinkwrapChoices}
  /\ committedNpmrc = TRUE
  /\ tempShrinkwrap = <<>>
  /\ tempNpmrc = FALSE
  /\ tarballs = [name \in Projects |-> <<>>]
  /\ commonPackageJsonFile = <<>>
  /\ planResult = <<>>
  /\ inputsChanged = FALSE
  /\ clock = 0

\* the arguments: a name with and without entries, SemVer ranges and a git
\* specifier, no temp project, two temp projects of the lockfile and one that it lacks
DependencyNames == {"x", "y"}

VersionRanges == {Caret(V1), Caret(V2), GitSpecifier}

TempProjectArguments == {"", TempProjectName("a"), TempProjectName("b"), OrphanTempName}

\* the call, with the warning that is logged once for each specifier
CallHasCompatibleDependency(dependencyName, versionRange, tempProjectName) ==
  /\ committedShrinkwrap # <<>>
  /\ planResult = <<>>
  /\ LET shrinkwrapJson == committedShrinkwrap[1].json
         alreadyWarnedSpecs == IF compatible = <<>> THEN {} ELSE compatible[1].alreadyWarnedSpecs
         result == HasCompatibleDependency(shrinkwrapJson, dependencyName, versionRange,
                                           tempProjectName)
         \* the default branch of the switch, which returns true
         warns == result /\ ~IsSemVerSpecifier(versionRange)
     IN compatible' =
          <<[dependencyName |-> dependencyName, versionRange |-> versionRange,
             tempProjectName |-> tempProjectName, result |-> result,
             warned |-> warns /\ versionRange \notin alreadyWarnedSpecs,
             alreadyWarnedSpecs |-> IF warns THEN alreadyWarnedSpecs \cup {versionRange}
                                    ELSE alreadyWarnedSpecs]>>
  /\ UNCHANGED <<rushProjects, pinnedVersions, committedShrinkwrap, committedNpmrc,
                 tempShrinkwrap, tempNpmrc, tarballs, commonPackageJsonFile, planResult,
                 inputsChanged, clock>>
  /\ UNCHANGED <<installerVars, policyVars, changeVars, runnerVars, buildVars>>

ShrinkwrapNext ==
  \E dependencyName \in DependencyNames, versionRange \in VersionRanges,
     tempProjectName \in TempProjectArguments :
     CallHasCompatibleDependency(dependencyName, versionRange, tempProjectName)

ShrinkwrapSpec == ShrinkwrapInit /\ [][ShrinkwrapNext]_vars

\* the entry of the lockfile that decides the last call: <<>> or <<entry>>
ChosenEntry ==
  LET call == compatible[1]
      root == committedShrinkwrap[1].json.dependencies
      underTemp == /\ call.tempProjectName # ""
                   /\ call.tempProjectName \in DOMAIN root
                   /\ call.dependencyName \in DOMAIN root[call.tempProjectName].dependencies
  IN IF underTemp
       THEN <<root[call.tempProjectName].dependencies[call.dependencyName]>>
     ELSE IF call.dependencyName \in DOMAIN root THEN <<root[call.dependencyName]>>
     ELSE <<>>

(* C33: hasCompatibleDependency(name, range, tempProject) takes the entry under
   the temp project's nested dependencies if there is one and only otherwise
   the root entry; it returns false when neither exists, whether the chosen
   entry's version satisfies the range for a SemVer specifier (an incompatible
   nested entry gives false even if the root entry is compatible), and true
   for a specifier that is not SemVer. *)
Thm_C33 ==
  compatible # <<>> =>
    compatible[1].result =
      (IF ChosenEntry = <<>> THEN FALSE
       ELSE IF compatible[1].versionRange \in {Caret(V1), Caret(V2)}
         THEN ChosenEntry[1].version[1] = compatible[1].versionRange.v[1]
       ELSE TRUE)

\* x is locked at 1.0.0 at the root and at 2.0.0 under the temp project of a:
\* ^1.0.0 is not satisfied for that temp project
Wit_C33 ==
  /\ compatible # <<>>
  /\ compatible[1].dependencyName = "x"
  /\ compatible[1].versionRange = Caret(V1)
  /\ compatible[1].tempProjectName = TempProjectName("a")
  /\ ~compatible[1].result
  /\ "x" \in DOMAIN committedShrinkwrap[1].json.dependencies
  /\ committedShrinkwrap[1].json.dependencies["x"].version = V1
  /\ ChosenEntry # <<>>
  /\ ChosenEntry[1].version = V2

\* the names that a project lists in devDependencies and in dependencies, with two ranges
ListedTwice(rushProject) ==
  {name \in ObjectKeys(rushProjects[rushProject].devDependencies)
            \cap ObjectKeys(rushProjects[rushProject].dependencies) :
     ObjectGet(rushProjects[rushProject].devDependencies, name)
       # ObjectGet(rushProjects[rushProject].dependencies, name)}

(* C32: when a name appears in both dependencies and devDependencies of a
   project with different ranges, the stub is determined by the regular
   dependency alone: the stub's dependencies do not carry the devDependency's
   range for that name, and the name is not both locally linked
   (rushDependencies) and listed in the stub's dependencies. *)
Orig_C32 ==
  Planned =>
    \A rushProject \in DOMAIN rushProjects : \A name \in ListedTwice(rushProject) :
       LET stub == Stub(rushProject)
       IN /\ ObjectHas(stub.dependencies, name)
               => ObjectGet(stub.dependencies, name)
                    # ObjectGet(rushProjects[rushProject].devDependencies, name)
          /\ ~(ObjectHas(stub.rushDependencies, name) /\ ObjectHas(stub.dependencies, name))

\* where neither pair or both pairs of the name are linked, the regular dependency wins
RegularWinsInOneSection ==
  Planned =>
    \A rushProject \in DOMAIN rushProjects : \A name \in ListedTwice(rushProject) :
       LET stub == Stub(rushProject)
           regular == ObjectGet(rushProjects[rushProject].dependencies, name)
       IN ObjectHas(stub.rushDependencies, name) # ObjectHas(stub.dependencies, name)
            => IF ObjectHas(stub.dependencies, name)
                 THEN ObjectGet(stub.dependencies, name) = regular
                 ELSE ObjectGet(stub.rushDependencies, name) = regular

\* the pinned (name, range) pairs: a name used with one range only by the pairs
\* that are not linked, unless rush.json pins the name itself
PinnedPairs ==
  LET unlinked == UNION {{Pairs(rushProjects[rushProject])[i] :
                            i \in {k \in DOMAIN Pairs(rushProjects[rushProject]) :
                                     ~Linkable(rushProject, k)}} :
                         rushProject \in DOMAIN rushProjects}
  IN {pair \in unlinked :
        /\ ~ObjectHas(pinnedVersions, pair[1])
        /\ \A other \in unlinked : other[1] = pair[1] => other[2] = pair[2]}
     \cup Range(pinnedVersions)

(* C17: createTempModulesAndCheckShrinkwrap returns true exactly when a
   lockfile is given, every pinned (name, range) has a compatible entry in the
   lockfile, every pair of every project that is not locally linked is
   compatible under that project's temp project, and every temp project named
   in the lockfile is a project of the workspace. *)
Thm_C17 ==
  Planned =>
    (planResult[1].shrinkwrapIsValid
      <=> /\ planResult[1].shrinkwrapFile # <<>>
          /\ \A pin \in PinnedPairs :
                HasCompatibleDependency(planResult[1].shrinkwrapFile[1], pin[1], pin[2], "")
          /\ \A rushProject \in DOMAIN rushProjects :
                \A i \in DOMAIN Pairs(rushProjects[rushProject]) :
                   Linkable(rushProject, i)
                   \/ HasCompatibleDependency(planResult[1].shrinkwrapFile[1],
                                              Pairs(rushProjects[rushProject])[i][1],
                                              Pairs(rushProjects[rushProject])[i][2],
                                              TempProjectName(rushProject))
          /\ \A key \in DOMAIN planResult[1].shrinkwrapFile[1].dependencies :
                Scope(key) = "@rush-temp"
                  => \E rushProject \in DOMAIN rushProjects : TempProjectName(rushProject) = key)

\* a lockfile that is valid for a workspace with a pin and a dependency that is not linked
Wit_C17 ==
  /\ Planned
  /\ planResult[1].shrinkwrapIsValid
  /\ PinnedPairs # {}
  /\ \E i \in DOMAIN Pairs(rushProjects["a"]) :
        ~Linkable("a", i) /\ Pairs(rushProjects["a"])[i][1] = "b"

(* C18: when the planner runs again and no package.json, no pinned version and
   not the lockfile has changed since its previous run, it rewrites no stub
   archive and does not rewrite common/temp/package.json: the archives and the
   common manifest stay as the previous run left them. *)
Thm_C18 ==
  [][(Planned /\ planResult' # planResult)
       => /\ planResult'[1].updated = {}
          /\ ~planResult'[1].saved
          /\ tarballs' = tarballs
          /\ commonPackageJsonFile' = commonPackageJsonFile]_vars

\* the planner has run twice over a workspace with dependencies
Wit_C18 ==
  /\ Planned
  /\ planResult[1].updated = {}
  /\ ~planResult[1].saved
  /\ \A rushProject \in DOMAIN rushProjects : Stub(rushProject).dependencies # <<>>
  /\ Len(commonPackageJsonFile[1].json.dependencies) > MaxProjects

(***************************************************************************)
(* InstallManager.installCommonModules                                     *)
(***************************************************************************)
MaxTime == 1             \* the last tick of the file system's clock

\* the projects of the workspace that is installed
InstallProjects == {"a", "b"}

\* the project whose package.json is edited between the commands
EditedProjects == {"b"}

InstallTypes == {"Normal", "ForceClean", "UnsafePurge"}

\* the modification time of a file or folder, <<>> when it does not exist
MarkerStat == marker

NodeModulesStat == IF nodeModules = <<>> THEN <<>> ELSE <<nodeModules[1].mtime>>

ShrinkwrapStat == IF committedShrinkwrap = <<>> THEN <<>> ELSE <<committedShrinkwrap[1].mtime>>

TarballStat(rushProject) ==
  IF tarballs[rushProject] = <<>> THEN <<>> ELSE <<tarballs[rushProject][1].mtime>>

\* a variant that leaves the stub archives out
PotentiallyChangedFilesWithoutTarballs == {NodeModulesStat, ShrinkwrapStat}

\* potentiallyChangedFiles: node_modules, the committed lockfile, every stub archive
PotentiallyChangedFiles ==
  {NodeModulesStat, ShrinkwrapStat} \cup {TarballStat(rushProject) : rushProject \in DOMAIN rushProjects}

\* Utilities.isFileTimestampCurrent(outputFilename, inputFilenames): false when the
\* output or an input does not exist or an input is newer than the output
IsFileTimestampCurrent(output, inputs) ==
  /\ output # <<>>
  /\ \A input \in inputs : input # <<>> /\ ~(input[1] > output[1])

\* a variant that leaves the marker in place
KeepMarker(file) == file

\* fsx.unlinkSync(this.commonNodeModulesMarkerFilename)
UnlinkMarker(file) == <<>>

\* a variant that leaves the link flag file in place
KeepLinkFlag(exists) == exists

\* Utilities.deleteFile(this._rushConfiguration.rushLinkJsonFilename)
DeleteLinkFlag(exists) == FALSE

\* a variant that creates no marker
CreateNoMarker(time) == <<>>

\* fsx.createFileSync(this.commonNodeModulesMarkerFilename)
CreateMarker(time) == <<time>>

\* installCommonModules returned: the flow "plan, then install" is complete
FlowInstalled ==
  flow' = (CASE flow = "planned" -> "done"
             [] flow = "replanned" -> "redone"
             [] OTHER -> flow)

\* installCommonModules goes on to change the common folder
FlowInstalling == flow' = (IF flow = "none" THEN "none" ELSE "planned")

InstallerFrame == UNCHANGED <<policyVars, changeVars, runnerVars, buildVars, plannerVars, rebuild>>

\* the call is over: it returned, it threw (result "failed"), or the process was
\* killed (result "interrupted")
Returned(call, result) == [call EXCEPT !.pc = "ended", !.result = result]

\* the process is gone and the locals of the call with it
Exited ==
  [pc |-> "idle", installType |-> "none", markerFileExistedAtStart |-> FALSE,
   deletingNodeModules |-> FALSE, result |-> "none"]

(* the process can be killed between any two calls to the file system, so
   installCommonModules is taken one file-system step at a time *)

\* a variant that deletes node_modules for a clean install only
DeletingNodeModulesWhenClean(installType, markerFileExistedAtStart) == installType # "Normal"

\* line 491: "--clean" or "--full-clean" was given, or the last install was interrupted
DeletingNodeModules(installType, markerFileExistedAtStart) ==
  installType # "Normal" \/ ~markerFileExistedAtStart

\* lines 470-525: the locals, the timestamp check, the recycling of the npm caches
InstallCommonModules(installType) ==
  /\ install.pc = "idle"
  /\ rebuild = "none"
  /\ LET markerFileExistedAtStart == marker # <<>>
         deletingNodeModules == DeletingNodeModules(installType, markerFileExistedAtStart)
         call == [pc |-> "unlinkMarker", installType |-> installType,
                  markerFileExistedAtStart |-> markerFileExistedAtStart,
                  deletingNodeModules |-> deletingNodeModules,
                  result |-> "none"]
     IN IF ~deletingNodeModules /\ IsFileTimestampCurrent(MarkerStat, PotentiallyChangedFiles)
          THEN /\ install' = Returned(call, "skipped")
               /\ installEvents' = <<>>
               /\ FlowInstalled
               /\ UNCHANGED npmCacheFolders
          ELSE /\ install' = call
               /\ npmCacheFolders' = (IF deletingNodeModules THEN FALSE ELSE npmCacheFolders)
               /\ installEvents' = (IF deletingNodeModules THEN <<"recycle-caches">> ELSE <<>>)
               /\ FlowInstalling
  /\ UNCHANGED <<marker, rushLinkJson, nodeModules>>
  /\ InstallerFrame

\* lines 527-530
InstallUnlinksMarker ==
  /\ install.pc = "unlinkMarker"
  /\ marker' = (IF install.markerFileExistedAtStart THEN UnlinkMarker(marker) ELSE marker)
  /\ installEvents' = (IF install.markerFileExistedAtStart
                         THEN Append(installEvents, "unlink-marker") ELSE installEvents)
  /\ install' = [install EXCEPT !.pc = "deleteLinkFlag"]
  /\ UNCHANGED <<rushLinkJson, nodeModules, npmCacheFolders, flow>>
  /\ InstallerFrame

\* lines 532-534
InstallDeletesLinkFlag ==
  /\ install.pc = "deleteLinkFlag"
  /\ rushLinkJson' = DeleteLinkFlag(rushLinkJson)
  /\ installEvents' = (IF rushLinkJson THEN Append(installEvents, "delete-link-flag")
                       ELSE installEvents)
  /\ install' = [install EXCEPT !.pc = "nodeModules"]
  /\ UNCHANGED <<marker, nodeModules, npmCacheFolders, flow>>
  /\ InstallerFrame

\* lines 536-562: an existing node_modules is recycled, or pruned by "npm prune",
\* which may fail after its retries
InstallPreparesNodeModules ==
  /\ install.pc = "nodeModules"
  /\ IF nodeModules = <<>>
       THEN /\ install' = [install EXCEPT !.pc = "npmInstall"]
            /\ UNCHANGED <<nodeModules, installEvents>>
     ELSE IF install.deletingNodeModules
       THEN /\ nodeModules' = <<>>
            /\ installEvents' = Append(installEvents, "recycle-node_modules")
            /\ install' = [install EXCEPT !.pc = "createFolder"]
     ELSE /\ nodeModules' = <<[content |-> "modified", mtime |-> clock]>>
          /\ installEvents' = Append(installEvents, "npm-prune")
          /\ \E succeeds \in BOOLEAN :
                install' = (IF succeeds THEN [install EXCEPT !.pc = "deleteTempModules"]
                            ELSE Returned(install, "failed"))
  /\ UNCHANGED <<marker, rushLinkJson, npmCacheFolders, flow>>
  /\ InstallerFrame

\* line 554: an empty folder, so that an interrupted install is noticed
InstallCreatesFolder ==
  /\ install.pc = "createFolder"
  /\ nodeModules' = <<[content |-> "empty", mtime |-> clock]>>
  /\ installEvents' = Append(installEvents, "create-folder")
  /\ install' = [install EXCEPT !.pc = "npmInstall"]
  /\ UNCHANGED <<marker, rushLinkJson, npmCacheFolders, flow>>
  /\ InstallerFrame

\* lines 564-580: the installed temp projects are deleted from node_modules/@rush-temp
InstallDeletesTempModules ==
  /\ install.pc = "deleteTempModules"
  /\ installEvents' = Append(installEvents, "delete-temp-modules")
  /\ install' = [install EXCEPT !.pc = "npmInstall"]
  /\ UNCHANGED <<marker, rushLinkJson, nodeModules, npmCacheFolders, flow>>
  /\ InstallerFrame

\* lines 584-613: "npm install" starts to write node_modules and the caches
NpmInstallStarts ==
  /\ install.pc = "npmInstall"
  /\ nodeModules' = <<[content |-> "modified", mtime |-> clock]>>
  /\ npmCacheFolders' = TRUE
  /\ installEvents' = Append(installEvents, "npm-install")
  /\ install' = [install EXCEPT !.pc = "installing"]
  /\ UNCHANGED <<marker, rushLinkJson, flow>>
  /\ InstallerFrame

\* "npm install" ends: well, or with an error after the last retry
NpmInstallEnds ==
  /\ install.pc = "installing"
  /\ \E succeeds \in BOOLEAN :
        IF succeeds
          THEN /\ nodeModules' = <<[content |-> "installed", mtime |-> clock]>>
               /\ install' = [install EXCEPT !.pc = "createMarker"]
          ELSE /\ nodeModules' = <<[content |-> "modified", mtime |-> clock]>>
               /\ install' = Returned(install, "failed")
  /\ UNCHANGED <<marker, rushLinkJson, npmCacheFolders, installEvents, flow>>
  /\ InstallerFrame

\* lines 615-619: _fixupNpm5Regression, then the marker
InstallCreatesMarker ==
  /\ install.pc = "createMarker"
  /\ marker' = CreateMarker(clock)
  /\ installEvents' = Append(installEvents, "create-marker")
  /\ install' = Returned(install, "installed")
  /\ FlowInstalled
  /\ UNCHANGED <<rushLinkJson, nodeModules, npmCacheFolders>>
  /\ InstallerFrame

\* the command that called installCommonModules is over
InstallExits ==
  /\ install.pc = "ended"
  /\ install' = Exited
  /\ installEvents' = <<>>
  /\ UNCHANGED <<marker, rushLinkJson, nodeModules, npmCacheFolders, flow>>
  /\ InstallerFrame

\* the process is killed in the middle of installCommonModules
InstallInterrupted ==
  /\ install.pc \notin {"idle", "ended"}
  /\ install' = Returned(install, "interrupted")
  /\ UNCHANGED <<marker, rushLinkJson, nodeModules, npmCacheFolders, installEvents, flow>>
  /\ InstallerFrame

(* ---- RebuildAction.run, lines 111-117: no build without the link flag file ---- *)
\* the behaviour follows the workspace up to its first build command
RebuildRun ==
  /\ rebuild = "none"
  /\ install.pc \in {"idle", "ended"}
  /\ rebuild' = (IF ~rushLinkJson THEN "thrown" ELSE "started")
  /\ UNCHANGED <<marker, rushLinkJson, nodeModules, npmCacheFolders, install, installEvents, flow>>
  /\ UNCHANGED <<policyVars, changeVars, runnerVars, buildVars, plannerVars>>

\* the tasks of the build are registered and run by the runner of this build only
RebuildRegisterTask ==
  /\ rebuild = "started"
  /\ RegisterTaskUpTo(1)

RebuildExecute ==
  /\ rebuild = "started"
  /\ Execute

\* how the build goes on from there is the subject of Spec

(* ---- what happens to the workspace between the commands, which are run one
        after the other ---- *)
\* time passes; a tick that no file has seen changes nothing and is left out
Tick ==
  /\ clock < MaxTime
  /\ clock \in UNION {Range(stat) : stat \in PotentiallyChangedFiles \cup {MarkerStat}}
  /\ clock' = clock + 1
  /\ UNCHANGED <<compatible, rushProjects, pinnedVersions, committedShrinkwrap, committedNpmrc,
                 tempShrinkwrap, tempNpmrc, tarballs, commonPackageJsonFile, planResult,
                 inputsChanged>>
  /\ UNCHANGED <<policyVars, changeVars, runnerVars, buildVars, installerVars>>

\* a package.json of the workspace is edited
EditPackageJson ==
  /\ install.pc = "idle"
  /\ rebuild = "none"
  /\ \E name \in EditedProjects :
        \E packageJson \in {PackageJson(V1, <<>>, <<>>, <<>>, {}),
                            PackageJson(V1, <<>>, <<<<"x", Caret(V1)>>>>, <<>>, {})} :
           /\ packageJson # rushProjects[name]
           /\ rushProjects' = [rushProjects EXCEPT ![name] = packageJson]
  /\ inputsChanged' = TRUE
  /\ flow' = "none"
  /\ UNCHANGED <<compatible, pinnedVersions, committedShrinkwrap, committedNpmrc, tempShrinkwrap, tempNpmrc,
                 tarballs, commonPackageJsonFile, planResult, clock>>
  /\ UNCHANGED <<marker, rushLinkJson, nodeModules, npmCacheFolders, install, installEvents,
                 rebuild>>
  /\ UNCHANGED <<policyVars, changeVars, runnerVars, buildVars>>

\* the committed lockfile is written again (a pull from Git) or deleted
EditShrinkwrap ==
  /\ install.pc = "idle"
  /\ rebuild = "none"
  /\ committedShrinkwrap # <<>>
  /\ \/ committedShrinkwrap' = <<[committedShrinkwrap[1] EXCEPT !.mtime = clock]>>
     \/ committedShrinkwrap' = <<>>
  /\ inputsChanged' = TRUE
  /\ flow' = "none"
  /\ UNCHANGED <<compatible, rushProjects, pinnedVersions, committedNpmrc, tempShrinkwrap, tempNpmrc,
                 tarballs, commonPackageJsonFile, planResult, clock>>
  /\ UNCHANGED <<marker, rushLinkJson, nodeModules, npmCacheFolders, install, installEvents,
                 rebuild>>
  /\ UNCHANGED <<policyVars, changeVars, runnerVars, buildVars>>

\* someone tampers with common/temp/node_modules or deletes it
TamperWithNodeModules ==
  /\ install.pc = "idle"
  /\ rebuild = "none"
  /\ nodeModules # <<>>
  /\ \/ nodeModules' = <<[content |-> "modified", mtime |-> clock]>>
     \/ nodeModules' = <<>>
  /\ flow' = "none"
  /\ UNCHANGED <<marker, rushLinkJson, npmCacheFolders, install, installEvents, rebuild>>
  /\ UNCHANGED <<policyVars, changeVars, runnerVars, buildVars, plannerVars>>

\* "rush link" succeeds and records it in its flag file
RushLink ==
  /\ install.pc = "idle"
  /\ rebuild = "none"
  /\ ~rushLinkJson
  /\ rushLinkJson' = TRUE
  /\ UNCHANGED <<marker, nodeModules, npmCacheFolders, install, installEvents, flow, rebuild>>
  /\ UNCHANGED <<policyVars, changeVars, runnerVars, buildVars, plannerVars>>

(* ---- the specification of the install commands over one workspace ---- *)
\* a lockfile that is valid for the workspace
InstallShrinkwrapJson ==
  [dependencies |->
     "x" :> Locked(V1, <<>>)
     @@ [key \in {TempProjectName(name) : name \in InstallProjects} |->
           Locked(<<0, 0, 0>>, <<>>)]]

InstallInit ==
  /\ NoTaskRunner
  /\ NoBuildTask
  /\ NoPolicy
  /\ NoChangeRequests
  /\ NoInstaller
  /\ rushProjects = [name \in InstallProjects |-> PackageJson(V1, <<>>, <<>>, <<>>, {})]
  /\ pinnedVersions = <<>>
  /\ compatible = <<>>
  /\ committedShrinkwrap = <<[json |-> InstallShrinkwrapJson, mtime |-> 0]>>
  /\ committedNpmrc = FALSE
  /\ tempShrinkwrap = <<>>
  /\ tempNpmrc = FALSE
  /\ tarballs = [name \in InstallProjects |-> <<>>]
  /\ commonPackageJsonFile = <<>>
  /\ planResult = <<>>
  /\ inputsChanged = FALSE
  /\ clock = 0

InstallCommand == \E installType \in InstallTypes : InstallCommonModules(installType)

InstallNext ==
  \/ PlanWithShrinkwrap
  \/ InstallCommand
  \/ InstallUnlinksMarker
  \/ InstallDeletesLinkFlag
  \/ InstallPreparesNodeModules
  \/ InstallCreatesFolder
  \/ InstallDeletesTempModules
  \/ NpmInstallStarts
  \/ NpmInstallEnds
  \/ InstallCreatesMarker
  \/ InstallExits
  \/ InstallInterrupted
  \/ RebuildRun
  \/ RebuildRegisterTask
  \/ RebuildExecute
  \/ Tick
  \/ EditPackageJson
  \/ EditShrinkwrap
  \/ TamperWithNodeModules
  \/ RushLink

InstallSpec == InstallInit /\ [][InstallNext]_vars

(* C11: when the build command exits, the task fails (its promise is rejected,
   which the runner records as Failure) if the exit code is not zero or the
   error detector found an error; it ends SuccessWithWarning if the exit code is
   zero, no error was found and stderr received data; it ends Success
   otherwise; and package-deps.json is written only when it ends Success. *)
Thm_C11 ==
  [][(childProcess = "running" /\ childProcess' = "none")
       => /\ closed' # <<>>
          /\ taskResult' =
               (IF closed'[1].code # 0 \/ closed'[1].errorCount > 0 THEN "rejected"
                ELSE IF hasWarningOrError THEN SuccessWithWarning
                ELSE Success)
          /\ packageDepsFile' # packageDepsFile => taskResult' = Success]_vars

\* the command exited with code 0 but the error detector found an error
Wit_C11 ==
  /\ closed # <<>>
  /\ closed[1].code = 0
  /\ closed[1].errorCount = 1
  /\ taskResult = "rejected"
  /\ events = <<"clean", "build">>

\* execute() is the only step of a build task that can be taken while no build command runs
ExecuteStep == childProcess = "none"

\* where the previous file existed it was unlinked first, before any clean step
UnlinkedFirst ==
  /\ packageDepsFile' = <<>>
  /\ packageDepsFile # <<>> => (events' # <<>> /\ events'[1] = "unlink")
  /\ \A i \in DOMAIN events' : events'[i] = "unlink" => i = 1

\* package-deps.json is absent while the build command runs, and a step that
\* makes it appear is the close of a build command that ends with Success
AbsentUntilSuccess ==
  /\ [](childProcess = "running" => packageDepsFile = <<>>)
  /\ [][(packageDepsFile = <<>> /\ packageDepsFile' # <<>>)
         => /\ childProcess = "running" /\ childProcess' = "none"
            /\ taskResult' = Success]_vars

(* C29 as stated: whenever a build task does not return Skipped, the previous
   package-deps.json is deleted before the clean script is invoked and stays
   absent while clean and build are running; it reappears only after the build
   command has closed with a Success result. *)
Orig_C29 ==
  /\ [][(ExecuteStep /\ taskResult' # Skipped) => UnlinkedFirst]_vars
  /\ AbsentUntilSuccess

(* C29, amended: whenever a build task of a project that declares a test or a
   build script does not return Skipped, the previous package-deps.json is
   deleted before the clean script is invoked and stays absent while clean and
   build are running; it reappears only after the build command has closed
   with a Success result. *)
Thm_C29 ==
  /\ [][(ExecuteStep /\ taskResult' # Skipped /\ events' # <<"build-missing">>)
         => UnlinkedFirst]_vars
  /\ AbsentUntilSuccess

\* the previous file was unlinked, clean was run and the build command is running
Wit_C29 ==
  /\ events = <<"unlink", "clean", "build">>
  /\ childProcess = "running"
  /\ packageDepsFile = <<>>

(* ---- the claims about installCommonModules ---- *)
\* a step that starts a call of installCommonModules
InstallBegins == install.pc = "idle" /\ install'.pc # "idle"

\* none of node_modules, the committed lockfile and the stub archives is missing
\* or newer than the marker, which exists
NothingNewerThanMarker ==
  /\ nodeModules # <<>> /\ nodeModules[1].mtime <= marker[1]
  /\ committedShrinkwrap # <<>> /\ committedShrinkwrap[1].mtime <= marker[1]
  /\ \A rushProject \in DOMAIN rushProjects :
        tarballs[rushProject] # <<>> /\ tarballs[rushProject][1].mtime <= marker[1]

(* C12: a call of installCommonModules in Normal mode that finds the success
   marker returns as skipped and leaves the marker, the link flag file,
   node_modules and the npm caches as they are, running no command, when none
   of node_modules, the committed lockfile and the stub archive of every
   project is missing or newer than the marker; otherwise it proceeds. *)
Thm_C12 ==
  [][(InstallBegins /\ install'.installType = "Normal" /\ marker # <<>>)
       => IF NothingNewerThanMarker
            THEN /\ install'.pc = "ended"
                 /\ install'.result = "skipped"
                 /\ installEvents' = <<>>
                 /\ UNCHANGED <<marker, rushLinkJson, nodeModules, npmCacheFolders>>
            ELSE /\ install'.pc = "unlinkMarker"
                 /\ install'.result = "none"]_vars

\* a Normal call was skipped over an installed and linked common folder, at a
\* time later than the marker
Wit_C12 ==
  /\ install.pc = "ended"
  /\ install.installType = "Normal"
  /\ install.result = "skipped"
  /\ marker # <<>> /\ marker[1] < clock
  /\ NothingNewerThanMarker
  /\ nodeModules[1].content = "installed"
  /\ rushLinkJson
  /\ npmCacheFolders

\* the call has changed node_modules, or is about to run "npm install" in it, and
\* "npm install" has not succeeded yet
InstallTransaction == install.pc \in {"createFolder", "deleteTempModules", "npmInstall", "installing"}

\* a step in which a call ends by an error or by the death of the process, past
\* the lines that delete the marker
InstallAborts ==
  /\ install.pc \in {"deleteLinkFlag", "nodeModules", "createFolder", "deleteTempModules",
                     "npmInstall", "installing", "createMarker"}
  /\ install'.pc = "ended"
  /\ install'.result \in {"failed", "interrupted"}

\* what a step may do to the marker and to node_modules
MarkerStep ==
  /\ (install.pc \notin {"idle", "ended"} /\ nodeModules' # nodeModules)
     => marker = <<>> /\ marker' = <<>>
  /\ (marker' # <<>> /\ marker' # marker)
     => /\ install.pc = "createMarker"
        /\ nodeModules # <<>> /\ nodeModules[1].content = "installed"
        /\ install'.pc = "ended"
        /\ install'.result = "installed"
  /\ InstallAborts => marker' = <<>>
  /\ (InstallBegins /\ install'.installType = "Normal" /\ marker = <<>>)
     => install'.pc = "unlinkMarker" /\ install'.deletingNodeModules
  /\ (install.pc = "nodeModules" /\ install.deletingNodeModules
        /\ install'.pc \in {"createFolder", "deleteTempModules", "npmInstall"})
     => nodeModules' = <<>>
  /\ (install.pc = "npmInstall" /\ install.deletingNodeModules /\ install'.pc = "installing")
     => nodeModules = <<>> \/ nodeModules[1].content = "empty"

(* C13: from the first change that a call of installCommonModules makes to
   node_modules until "npm install" has succeeded the success marker does not
   exist; the marker is created only by the last step of a call, after "npm
   install" succeeded, so a call that fails or is killed in between leaves no
   marker; and a Normal call that finds no marker deletes the whole
   node_modules folder (never "npm prune") and runs "npm install" over a
   missing or empty folder. *)
Thm_C13 ==
  /\ [](InstallTransaction => marker = <<>>)
  /\ [](install.pc \notin {"idle", "ended"} /\ install.deletingNodeModules
          => "npm-prune" \notin Range(installEvents) /\ install.pc # "deleteTempModules")
  /\ [][MarkerStep]_vars

\* a Normal call found a node_modules folder without a marker, which only an
\* install that did not complete leaves behind, and has deleted the folder
Wit_C13 ==
  /\ install.pc = "createFolder"
  /\ install.installType = "Normal"
  /\ ~install.markerFileExistedAtStart
  /\ installEvents = <<"recycle-caches", "delete-link-flag", "recycle-node_modules">>
  /\ nodeModules = <<>>
  /\ marker = <<>>

\* a step of a call of installCommonModules that does not skip, taken while
\* the success marker exists and leaving it in place
StepBeforeUnlink ==
  /\ install' # install
  /\ install'.pc # "idle"
  /\ install'.result # "skipped"
  /\ marker # <<>>
  /\ marker' # <<>>

(* C30 as stated: whenever installCommonModules does not skip, removing the
   success marker is the first state change it makes: while the marker still
   exists no folder (install cache, npm-tmp, node_modules) is moved to the
   recycler, nothing is pruned or deleted and no installer command runs. *)
Orig_C30 ==
  [][StepBeforeUnlink
       => /\ UNCHANGED <<npmCacheFolders, nodeModules, rushLinkJson>>
          /\ Range(installEvents') \subseteq {"recycle-caches"}]_vars

(* C30, amended: whenever installCommonModules does not skip, removing the
   success marker is the first state change it makes apart from moving the
   install cache and the npm-tmp folder to the recycler, which a call that
   deletes node_modules does before: while the marker still exists
   node_modules is not moved to the recycler, nothing is pruned or deleted and
   no installer command runs. *)
Thm_C30 ==
  [][StepBeforeUnlink
       => /\ UNCHANGED <<nodeModules, rushLinkJson>>
          /\ installEvents' \in {<<>>, <<"recycle-caches">>}
          /\ npmCacheFolders' # npmCacheFolders
               => /\ install'.deletingNodeModules
                  /\ ~npmCacheFolders'
                  /\ install.pc = "idle"]_vars

\* a clean install found the marker of the last install and has moved the caches
\* that this install had filled to the recycler; the marker is still there
Wit_C30 ==
  /\ install.pc = "unlinkMarker"
  /\ install.installType # "Normal"
  /\ install.markerFileExistedAtStart
  /\ marker # <<>>
  /\ installEvents = <<"recycle-caches">>
  /\ ~npmCacheFolders
  /\ nodeModules # <<>> /\ nodeModules[1].content = "installed"

\* a step that starts a call of installCommonModules which does not skip
InstallBeginsWork == InstallBegins /\ install'.result # "skipped"

\* the step moves the npm cache and the npm-tmp folder to the recycler
RecyclesCaches == installEvents' = <<"recycle-caches">> /\ ~npmCacheFolders'

\* the step leaves the npm cache and the npm-tmp folder alone
KeepsCaches == installEvents' = <<>> /\ UNCHANGED npmCacheFolders

(* C31 as stated: the install cache and the npm-tmp folder are recycled in
   ForceClean and UnsafePurge modes but not in Normal mode, also not by a
   Normal install that finds no success marker. *)
Orig_C31 ==
  [][InstallBeginsWork
       => IF install'.installType = "Normal" THEN KeepsCaches ELSE RecyclesCaches]_vars

(* C31, amended: the install cache and the npm-tmp folder are recycled in
   ForceClean and UnsafePurge modes and by a Normal install that finds no
   success marker; a Normal install that finds the marker and does not skip
   recycles neither. *)
Thm_C31 ==
  [][InstallBeginsWork
       => IF install'.installType = "Normal" /\ marker # <<>>
            THEN KeepsCaches ELSE RecyclesCaches]_vars

\* a Normal install found no marker over the folders that an install which
\* did not complete had left, and has moved the caches to the recycler
Wit_C31 ==
  /\ install.pc = "unlinkMarker"
  /\ install.installType = "Normal"
  /\ ~install.markerFileExistedAtStart
  /\ installEvents = <<"recycle-caches">>
  /\ ~npmCacheFolders
  /\ nodeModules # <<>> /\ nodeModules[1].content = "modified"

\* what a step of the second "rush install" in a row may do
SecondFlowStep ==
  /\ (flow \in {"done", "redone"} /\ flow' = "replanned")
     => /\ planResult'[1].updated = {}
        /\ tarballs' = tarballs
  /\ flow = "replanned" /\ flow' = "replanned" => tarballs' = tarballs
  /\ (flow = "replanned" /\ InstallBegins /\ install'.installType = "Normal")
     => /\ install'.pc = "ended"
        /\ install'.result = "skipped"
        /\ installEvents' = <<>>
        /\ UNCHANGED <<marker, nodeModules, npmCacheFolders>>
        /\ flow' = "redone"

(* C14: after the planner found the lockfile valid and installCommonModules
   then succeeded, and while no package.json of a project, the committed
   lockfile and node_modules have changed since, the planner run again rewrites
   no stub archive and installCommonModules called again in Normal mode
   returns as skipped, running no command. *)
Thm_C14 == [][SecondFlowStep]_vars

\* the second flow in a row was skipped, at a later time than the first, over
\* projects one of which has a dependency
Wit_C14 ==
  /\ flow = "redone"
  /\ install.pc = "ended"
  /\ install.installType = "Normal"
  /\ install.result = "skipped"
  /\ planResult[1].updated = {}
  /\ \E rushProject \in DOMAIN rushProjects : Stub(rushProject).dependencies # <<>>
  /\ nodeModules[1].content = "installed"
  /\ marker[1] < clock

\* the call is past the line that deletes the link flag file
LinkFlagDeleted ==
  install.pc \in {"nodeModules", "createFolder", "deleteTempModules", "npmInstall",
                  "installing", "createMarker"}

\* what a step may do to the link flag file and what a build command does with it
LinkFlagStep ==
  /\ (install.pc \notin {"idle", "ended"} /\ nodeModules' # nodeModules)
     => ~rushLinkJson /\ ~rushLinkJson'
  /\ (install.pc \notin {"idle", "ended"} /\ install'.pc = "ended"
        /\ install'.result \in {"installed", "failed"})
     => ~rushLinkJson'
  /\ (InstallBegins /\ install'.result = "skipped") => rushLinkJson' = rushLinkJson
  /\ (rebuild = "none" /\ rebuild' # "none")
     => rebuild' = (IF rushLinkJson THEN "started" ELSE "thrown")

(* C15: a call of installCommonModules that is not skipped deletes the link
   flag file rush-link.json before it changes node_modules, so the file is
   gone when the call ends, installed or failed; a skipped call leaves the file
   as it is; and a build or rebuild command run while the file is missing
   throws before it registers a task. *)
Thm_C15 ==
  /\ [](LinkFlagDeleted => ~rushLinkJson)
  /\ [](rebuild # "started" => NoTaskRunner)
  /\ [][LinkFlagStep]_vars

\* an install deleted the link flag file and then failed, and the build command
\* run after it threw
Wit_C15 ==
  /\ rebuild = "thrown"
  /\ install.pc = "ended"
  /\ install.result = "failed"
  /\ "delete-link-flag" \in Range(installEvents)
  /\ nodeModules # <<>>
  /\ ~rushLinkJson
  /\ NoTaskRunner

(***************************************************************************)
(* VersionPolicy: LockStepVersionPolicy and IndividualVersionPolicy        *)
(***************************************************************************)
MaxVersion == 1      \* the largest major, minor and patch number
MaxPrerelease == 1   \* the largest prerelease number, as in 1.0.0-1

(* a version string is [main, prerelease, build]: main is <<major, minor,
   patch>>, prerelease is <<>> or <<n>> for "-n", build says whether build
   metadata ("+b") follows *)
VersionStrings ==
  [main : (0..MaxVersion) \X (0..MaxVersion) \X (0..MaxVersion),
   prerelease : {<<>>} \cup {<<n>> : n \in 0..MaxPrerelease},
   build : BOOLEAN]

\* new semver.SemVer(versionString): the build metadata does not count
SemVer(versionString) ==
  [main |-> versionString.main, prerelease |-> versionString.prerelease]

\* semVer.format(): "major.minor.patch" and the prerelease, no build metadata
Format(semVer) ==
  [main |-> semVer.main, prerelease |-> semVer.prerelease, build |-> FALSE]

\* a variant that compares major, minor and patch only
SemVerCompareMain(a, b) == CompareVersions(a.main, b.main)

\* semVer.compare(other): compareMain, then comparePre, where a version without
\* a prerelease is the higher one
SemVerCompare(a, b) ==
  IF CompareVersions(a.main, b.main) # 0 THEN CompareVersions(a.main, b.main)
  ELSE IF a.prerelease = <<>> /\ b.prerelease = <<>> THEN 0
  ELSE IF a.prerelease = <<>> THEN 1
  ELSE IF b.prerelease = <<>> THEN -1
  ELSE IF a.prerelease[1] < b.prerelease[1] THEN -1
  ELSE IF a.prerelease[1] > b.prerelease[1] THEN 1
  ELSE 0

\* what ensure gives: undefined, an updated copy of the package.json, or an Error
NoChange == [outcome |-> "undefined", packageJson |-> <<>>]

Updated(packageJson) == [outcome |-> "returned", packageJson |-> <<packageJson>>]

Threw == [outcome |-> "thrown", packageJson |-> <<>>]

\* LockStepVersionPolicy._updatePackageVersion
UpdatePackageVersion(packageJson, newVersion) ==
  [packageJson EXCEPT !.version = Format(newVersion)]

\* LockStepVersionPolicy.ensure
LockStepEnsure(lockStep, packageJson) ==
  LET packageVersion == SemVer(packageJson.version)
      compareResult == SemVerCompare(packageVersion, lockStep.version)
  IN IF compareResult = 0 THEN NoChange
     ELSE IF compareResult > 0 THEN Threw
     ELSE Updated(UpdatePackageVersion(packageJson, lockStep.version))

\* if (this.lockedMajor): undefined and 0 are falsy
IsTruthy(lockedMajor) == lockedMajor # <<>> /\ lockedMajor[1] # 0

\* IndividualVersionPolicy.ensure
IndividualEnsure(individual, packageJson) ==
  IF IsTruthy(individual.lockedMajor)
    THEN LET version == SemVer(packageJson.version)
             lockedMajor == individual.lockedMajor[1]
         IN IF version.main[1] < lockedMajor
              THEN Updated([packageJson EXCEPT
                              !.version = [main |-> <<lockedMajor, 0, 0>>,
                                           prerelease |-> <<>>, build |-> FALSE]])
            ELSE IF version.main[1] > lockedMajor THEN Threw
            ELSE NoChange
    ELSE NoChange

\* LockStepVersionPolicy.validate: returns, or throws an Error
LockStepValidate(lockStep, versionString) ==
  LET versionToTest == SemVer(versionString)
  IN IF SemVerCompare(lockStep.version, versionToTest) # 0 THEN "thrown" ELSE "passed"

\* IndividualVersionPolicy.validate: this._lockedMajor !== undefined
IndividualValidate(individual, versionString) ==
  LET versionToTest == SemVer(versionString)
  IN IF individual.lockedMajor # <<>>
       THEN IF individual.lockedMajor[1] # versionToTest.main[1] THEN "thrown"
            ELSE "passed"
     ELSE "passed"

\* enum BumpType: the name at place n + 1 has the value n
BumpType == <<"none", "prerelease", "patch", "preminor", "minor", "major">>

\* BumpType[name]: the value of a name
BumpTypeValue(name) == CHOOSE n \in 0..5 : BumpType[n + 1] = name

\* semVer.inc(release) without an identifier: the new version, or an Error for
\* a release type that semver does not know
Inc(semVer, release) ==
  LET major == semVer.main[1]
      minor == semVer.main[2]
      patch == semVer.main[3]
      none == semVer.prerelease = <<>>
      pre(prerelease) == IF prerelease = <<>> THEN <<0>> ELSE <<prerelease[1] + 1>>
      to(main, prerelease) ==
        [outcome |-> "returned", version |-> [main |-> main, prerelease |-> prerelease]]
  IN CASE release = "major" ->
            to(<<IF minor # 0 \/ patch # 0 \/ none THEN major + 1 ELSE major, 0, 0>>, <<>>)
       [] release = "minor" ->
            to(<<major, IF patch # 0 \/ none THEN minor + 1 ELSE minor, 0>>, <<>>)
       [] release = "patch" ->
            to(<<major, minor, IF none THEN patch + 1 ELSE patch>>, <<>>)
       [] release = "preminor" -> to(<<major, minor + 1, 0>>, pre(<<>>))
       [] release = "prerelease" ->
            to(<<major, minor, IF none THEN patch + 1 ELSE patch>>, pre(semVer.prerelease))
       [] OTHER -> [outcome |-> "thrown", version |-> semVer]

\* bumpType || this.nextBump: undefined and 0 (BumpType.none) are falsy
BumpTypeOr(bumpType, nextBump) ==
  IF bumpType # <<>> /\ bumpType[1] # 0 THEN bumpType[1] ELSE nextBump[1]

\* LockStepVersionPolicy._getReleaseType
GetReleaseType(bumpType) == BumpType[bumpType + 1]

\* LockStepVersionPolicy.bump: what inc gives, the version being changed in place
LockStepBump(lockStep, bumpType) ==
  Inc(lockStep.version, GetReleaseType(BumpTypeOr(bumpType, lockStep.nextBump)))

(* ---- the policies and the package.json files they are checked on ---- *)
\* new LockStepVersionPolicy(json): the version string of the file, parsed
LockStepVersionPolicy(versionString, nextBump) ==
  [definitionName |-> "lockStepVersion", version |-> SemVer(versionString),
   nextBump |-> <<BumpTypeValue(nextBump)>>, lockedMajor |-> <<>>]

LockStepPolicies ==
  {LockStepVersionPolicy(versionString, nextBump) :
     versionString \in VersionStrings, nextBump \in Range(BumpType)}

\* new IndividualVersionPolicy(json): lockedMajor is optional
IndividualPolicies ==
  {[definitionName |-> "individualVersion", version |-> <<>>, nextBump |-> <<>>,
    lockedMajor |-> lockedMajor] :
     lockedMajor \in {<<>>} \cup {<<n>> : n \in 0..MaxVersion}}

PolicyInit ==
  /\ NoTaskRunner
  /\ NoBuildTask
  /\ NoInstall
  /\ NoChangeRequests
  /\ policy \in {<<p>> : p \in LockStepPolicies \cup IndividualPolicies}
  /\ policyProject \in {<<[name |-> "a", version |-> versionString]>> :
                           versionString \in VersionStrings}
  /\ ensured = <<>>
  /\ validated = <<>>
  /\ bumped = <<>>

PolicyFrame ==
  UNCHANGED <<policy, policyProject, runnerVars, buildVars, installVars, changeVars>>

CallLockStepEnsure ==
  /\ ensured = <<>>
  /\ policy[1].definitionName = "lockStepVersion"
  /\ ensured' = <<LockStepEnsure(policy[1], policyProject[1])>>
  /\ UNCHANGED <<validated, bumped>>
  /\ PolicyFrame

CallIndividualEnsure ==
  /\ ensured = <<>>
  /\ policy[1].definitionName = "individualVersion"
  /\ ensured' = <<IndividualEnsure(policy[1], policyProject[1])>>
  /\ UNCHANGED <<validated, bumped>>
  /\ PolicyFrame

\* the versions a caller has at hand: the one of the package.json and the one
\* of the copy that ensure returned
VersionsAtHand ==
  {policyProject[1].version} \cup
  (IF ensured # <<>> /\ ensured[1].outcome = "returned"
     THEN {ensured[1].packageJson[1].version} ELSE {})

CallLockStepValidate ==
  /\ validated = <<>>
  /\ policy[1].definitionName = "lockStepVersion"
  /\ \E versionString \in VersionsAtHand :
       validated' = <<[versionString |-> versionString,
                       outcome |-> LockStepValidate(policy[1], versionString)]>>
  /\ UNCHANGED <<ensured, bumped>>
  /\ PolicyFrame

CallIndividualValidate ==
  /\ validated = <<>>
  /\ policy[1].definitionName = "individualVersion"
  /\ \E versionString \in VersionsAtHand :
       validated' = <<[versionString |-> versionString,
                       outcome |-> IndividualValidate(policy[1], versionString)]>>
  /\ UNCHANGED <<ensured, bumped>>
  /\ PolicyFrame

(* ---- bump: a policy of version-policies.json, no package.json ---- *)
MaxBumpVersion == 3   \* the largest major, minor and patch number of a policy to bump

BumpVersionStrings ==
  [main : (0..MaxBumpVersion) \X (0..MaxBumpVersion) \X (0..MaxBumpVersion),
   prerelease : {<<>>} \cup {<<n>> : n \in 0..MaxPrerelease},
   build : {FALSE}]

BumpInit ==
  /\ NoTaskRunner
  /\ NoBuildTask
  /\ NoInstall
  /\ NoChangeRequests
  /\ policy \in {<<LockStepVersionPolicy(versionString, nextBump)>> :
                    versionString \in BumpVersionStrings, nextBump \in Range(BumpType)}
                \cup {<<p>> : p \in IndividualPolicies}
  /\ policyProject = <<>>
  /\ ensured = <<>>
  /\ validated = <<>>
  /\ bumped = <<>>

\* the optional bumpType argument
BumpTypeArguments == {<<>>} \cup {<<n>> : n \in 0..5}

CallLockStepBump(bumpType) ==
  /\ policy[1].definitionName = "lockStepVersion"
  /\ \A i \in 1..3 : policy[1].version.main[i] <= MaxBumpVersion
  /\ policy[1].version.prerelease # <<>> => policy[1].version.prerelease[1] <= MaxPrerelease
  /\ LET result == LockStepBump(policy[1], bumpType)
     IN /\ policy' = <<[policy[1] EXCEPT !.version = result.version]>>
        /\ bumped' = <<[previous |-> policy[1], bumpType |-> bumpType,
                        outcome |-> result.outcome]>>
  /\ UNCHANGED <<policyProject, ensured, validated, runnerVars, buildVars, installVars,
                 changeVars>>

\* IndividualVersionPolicy.bump does nothing
CallIndividualBump(bumpType) ==
  /\ policy[1].definitionName = "individualVersion"
  /\ bumped' = <<[previous |-> policy[1], bumpType |-> bumpType, outcome |-> "returned"]>>
  /\ UNCHANGED <<policy, policyProject, ensured, validated, runnerVars, buildVars,
                 installVars, changeVars>>

BumpNext ==
  \E bumpType \in BumpTypeArguments :
    \/ CallLockStepBump(bumpType)
    \/ CallIndividualBump(bumpType)

BumpSpec == BumpInit /\ [][BumpNext]_vars

PolicyNext ==
  \/ CallLockStepEnsure
  \/ CallIndividualEnsure
  \/ CallLockStepValidate
  \/ CallIndividualValidate

PolicySpec == PolicyInit /\ [][PolicyNext]_vars

(* ---- the claims about the version policies ---- *)
\* the place of a version in the order of SemVer: major, minor, patch, then the
\* prerelease, where none is above every number
Precedence(versionString) ==
  versionString.main \o <<IF versionString.prerelease = <<>> THEN MaxPrerelease + 1
                          ELSE versionString.prerelease[1]>>

Lower(a, b) ==
  \E i \in 1..4 : /\ Precedence(a)[i] < Precedence(b)[i]
                   /\ \A j \in 1..(i - 1) : Precedence(a)[j] = Precedence(b)[j]

LockStepEnsured == ensured # <<>> /\ policy[1].definitionName = "lockStepVersion"

IndividualEnsured == ensured # <<>> /\ policy[1].definitionName = "individualVersion"

(* C19: LockStepVersionPolicy.ensure(pkg) returns undefined when the version
   of pkg equals the version of the policy, returns a copy of pkg whose
   version is the version of the policy when the version of pkg is lower,
   and throws when it is higher. *)
Thm_C19 ==
  LockStepEnsured =>
    LET pkg == policyProject[1]
        version == Format(policy[1].version)
    IN IF Lower(pkg.version, version)
         THEN ensured[1] = Updated([name |-> pkg.name, version |-> version])
       ELSE IF Lower(version, pkg.version) THEN ensured[1] = Threw
       ELSE ensured[1] = NoChange

\* a prerelease of the policy's version was raised to the policy's version
Wit_C19 ==
  /\ LockStepEnsured
  /\ policyProject[1].version.main = policy[1].version.main
  /\ policyProject[1].version.prerelease # <<>>
  /\ policy[1].version.prerelease = <<>>
  /\ ensured[1].outcome = "returned"
  /\ ensured[1].packageJson[1].version = Format(policy[1].version)

(* C20 as the specification states it: for every locked major L that is set,
   0 included, IndividualVersionPolicy.ensure(pkg) returns a copy of pkg with
   version L.0.0 when the major version of pkg is below L, throws when it is
   above L and returns undefined otherwise; without a locked major it returns
   undefined. *)
Orig_C20 ==
  IndividualEnsured =>
    LET pkg == policyProject[1]
        major == pkg.version.main[1]
    IN IF policy[1].lockedMajor = <<>> THEN ensured[1] = NoChange
       ELSE LET L == policy[1].lockedMajor[1]
            IN IF major < L
                 THEN ensured[1] =
                        Updated([name |-> pkg.name,
                                 version |-> [main |-> <<L, 0, 0>>, prerelease |-> <<>>,
                                              build |-> FALSE]])
               ELSE IF major > L THEN ensured[1] = Threw
               ELSE ensured[1] = NoChange

\* the version that results from ensure: the rewritten one, or the original one
\* when ensure reports no change
EnsuredVersion ==
  IF ensured[1].outcome = "returned" THEN ensured[1].packageJson[1].version
  ELSE policyProject[1].version

EnsuredAndValidated ==
  /\ ensured # <<>>
  /\ ensured[1].outcome # "thrown"
  /\ validated # <<>>
  /\ validated[1].versionString = EnsuredVersion

(* C21 as the specification states it: for every policy (lock-step, or
   individual with a locked major, 0 included, or without one) and every
   package.json for which ensure does not throw, validate of the version that
   results from ensure does not throw. *)
Orig_C21 == EnsuredAndValidated => validated[1].outcome = "passed"

\* it holds of every policy but the individual one with locked major 0
EnsureThenValidateUnlessZero ==
  (EnsuredAndValidated /\ policy[1].lockedMajor # <<0>>) =>
    validated[1].outcome = "passed"

\* the release type that a bump used
ReleaseTypeUsed ==
  GetReleaseType(BumpTypeOr(bumped[1].bumpType, bumped[1].previous.nextBump))

(* C22 as the specification states it: for every policy, every nextBump of
   none, prerelease, patch, preminor, minor and major and every optional
   bumpType argument, bump() completes and leaves a version that is not below
   the previous one in SemVer order, an individual policy being left as it
   was; a lock-step policy at 1.2.3 with nextBump minor goes to 1.3.0. *)
Orig_C22 ==
  bumped # <<>> =>
    /\ bumped[1].outcome = "returned"
    /\ policy[1].definitionName = "lockStepVersion" =>
         SemVerCompare(policy[1].version, bumped[1].previous.version) >= 0
    /\ policy[1].definitionName = "individualVersion" => policy[1] = bumped[1].previous
    /\ ( /\ policy[1].definitionName = "lockStepVersion"
         /\ bumped[1].previous.version = [main |-> <<1, 2, 3>>, prerelease |-> <<>>]
         /\ bumped[1].previous.nextBump = <<BumpTypeValue("minor")>>
         /\ bumped[1].bumpType = <<>> )
       => policy[1].version = [main |-> <<1, 3, 0>>, prerelease |-> <<>>]

\* a bump of a lock-step policy with a release type other than none raises the
\* version; with none it throws and leaves the version
BumpRaisesUnlessNone ==
  (bumped # <<>> /\ policy[1].definitionName = "lockStepVersion") =>
    IF ReleaseTypeUsed = "none"
      THEN bumped[1].outcome = "thrown" /\ policy[1] = bumped[1].previous
      ELSE /\ bumped[1].outcome = "returned"
           /\ SemVerCompare(policy[1].version, bumped[1].previous.version) > 0

(***************************************************************************)
(* PublishUtilities.findChangeRequests                                     *)
(***************************************************************************)
\* enum ChangeType
ChangeType == [none |-> 0, dependency |-> 1, patch |-> 2, minor |-> 3, major |-> 4]

\* semver.inc(version, release) on a version <<major, minor, patch>>
SemverInc(version, release) ==
  Inc([main |-> version, prerelease |-> <<>>], release).version.main

\* the specifier ">=v <next major of v"
RangeDependency(v) == [op |-> ">=<", v |-> v]

\* semver.satisfies(version, range), the specifier ">=v <next major" included
SemverSatisfies(version, range) ==
  IF range.op = ">=<"
    THEN /\ CompareVersions(version, range.v) >= 0
         /\ CompareVersions(version, SemverInc(range.v, "major")) < 0
    ELSE Satisfies(version, range)

\* PublishUtilities._getReleaseType: an Error for none and dependency
PublishGetReleaseType(changeType) ==
  CASE changeType = ChangeType.major -> "major"
    [] changeType = ChangeType.minor -> "minor"
    [] changeType = ChangeType.patch -> "patch"
    [] OTHER -> "Wrong change type"

\* PublishUtilities._getNewRangeDependency, of a version without prerelease
GetNewRangeDependency(newVersion) == RangeDependency(newVersion)

\* prereleaseToken && prereleaseToken.hasValue: the token is <<>> or <<[name,
\* isPrerelease, isSuffix]>>
HasValue(prereleaseToken) == prereleaseToken # <<>> /\ prereleaseToken[1].name # ""

\* a variant that does not look at the set of excluded projects
ShouldSkipUnlessExcluded(rushProject, prereleaseToken, projectsToExclude) ==
  \/ prereleaseToken # <<>> /\ prereleaseToken[1].isSuffix
  \/ ~rushProject.shouldPublish

\* PublishUtilities._shouldSkipVersionBump
ShouldSkipVersionBump(rushProject, prereleaseToken, projectsToExclude) ==
  \/ prereleaseToken # <<>> /\ prereleaseToken[1].isSuffix
  \/ rushProject.packageName \in projectsToExclude
  \/ ~rushProject.shouldPublish

\* change.changeType, derived from the "type" string where it is undefined
ChangeTypeOf(change) ==
  IF change.changeType = <<>> THEN ChangeType[change.type] ELSE change.changeType[1]

\* PublishUtilities._addChange: [hasChanged, allChanges]; the hash is a list of
\* <<packageName, entry>> in the order of insertion. The change pushed onto
\* entry.changes carries two history fields: hasChanged, what this call
\* returned, and recursed, whether the propagation went on from the package
\* after this call
AddChange(change, changes, packages, prereleaseToken, projectsToExclude) ==
  LET packageName == change.packageName
  IN IF packageName \notin DOMAIN packages
       THEN [hasChanged |-> FALSE, allChanges |-> changes]
     ELSE
       LET rushProject == packages[packageName]
           changeType == ChangeTypeOf(change)
           skipVersionBump ==
             ShouldSkipVersionBump(rushProject, prereleaseToken, projectsToExclude)
           isNew == ~ObjectHas(changes, packageName)
           old == ObjectGet(changes, packageName)
           aggregated ==
             IF isNew THEN changeType ELSE MathMax(<<old.changeType, changeType>>)
           hasChanged == isNew \/ old.changeType # aggregated
           added == [packageName |-> packageName, changeType |-> changeType,
                     hasChanged |-> ~skipVersionBump /\ hasChanged, recursed |-> FALSE]
           currentChange ==
             IF isNew
               THEN [packageName |-> packageName, changeType |-> changeType, order |-> 0,
                     changes |-> <<added>>, newVersion |-> <<>>,
                     newRangeDependency |-> <<>>]
               ELSE [old EXCEPT !.changeType = aggregated,
                                !.changes = Append(old.changes, added)]
           newVersion ==
             IF changeType >= ChangeType.patch
               THEN SemverInc(rushProject.version,
                              PublishGetReleaseType(currentChange.changeType))
               ELSE rushProject.version
       IN IF skipVersionBump
            THEN [hasChanged |-> FALSE,
                  allChanges |->
                    ObjectSet(changes, packageName,
                              [currentChange EXCEPT !.newVersion = <<rushProject.version>>,
                                                    !.changeType = ChangeType.none])]
            ELSE [hasChanged |-> hasChanged,
                  allChanges |->
                    ObjectSet(changes, packageName,
                              [currentChange EXCEPT
                                 !.newVersion = <<newVersion>>,
                                 !.newRangeDependency = <<GetNewRangeDependency(newVersion)>>])]

RECURSIVE UpdateDownstreamDependencies(_, _, _, _, _)

\* a variant that goes downstream whatever the change type is
GoesDownstreamAlways(change, prereleaseToken) == TRUE

\* (change.changeType >= ChangeType.patch) || (prereleaseToken && prereleaseToken.hasValue)
GoesDownstream(change, prereleaseToken) ==
  change.changeType >= ChangeType.patch \/ HasValue(prereleaseToken)

\* a variant that also forces the update of a parent that has one change so far
AlwaysUpdateTwice(prereleaseToken, changes, parentPackageName) ==
  /\ HasValue(prereleaseToken)
  /\ \/ ~ObjectHas(changes, parentPackageName)
     \/ Len(ObjectGet(changes, parentPackageName).changes) < 2

\* const alwaysUpdate: boolean = !!prereleaseToken && prereleaseToken.hasValue &&
\*   !allChanges.hasOwnProperty(parentPackageName)
AlwaysUpdate(prereleaseToken, changes, parentPackageName) ==
  HasValue(prereleaseToken) /\ ~ObjectHas(changes, parentPackageName)

\* if (hasChanged || alwaysUpdate): the downstream dependencies of the parent
\* are re-evaluated
Reevaluates(hasChanged, alwaysUpdate) == hasChanged \/ alwaysUpdate

\* history: the propagation goes on from the package after its last change
Recursed(changes, packageName) ==
  LET entry == ObjectGet(changes, packageName)
  IN ObjectSet(changes, packageName,
               [entry EXCEPT !.changes[Len(entry.changes)].recursed = TRUE])

\* PublishUtilities._updateDownstreamDependency; `change` is the entry of the
\* hash under changeName, read where the code reads it
UpdateDownstreamDependency(parentPackageName, dependencySection, changeName, changes, packages, prereleaseToken, projectsToExclude) ==
  IF ~ObjectHas(dependencySection, changeName) THEN changes
  ELSE
    LET change == ObjectGet(changes, changeName)
        requiredVersion == ObjectGet(dependencySection, changeName)
        alwaysUpdate == AlwaysUpdate(prereleaseToken, changes, parentPackageName)
    IN IF <<requiredVersion>> # change.newRangeDependency \/ alwaysUpdate
         THEN LET changeType ==
                    IF SemverSatisfies(change.newVersion[1], requiredVersion)
                      THEN ChangeType.dependency ELSE ChangeType.patch
                  result ==
                    AddChange([packageName |-> parentPackageName, type |-> "",
                               changeType |-> <<changeType>>],
                              changes, packages, prereleaseToken, projectsToExclude)
              IN IF Reevaluates(result.hasChanged, alwaysUpdate)
                   THEN UpdateDownstreamDependencies(parentPackageName,
                                                     Recursed(result.allChanges,
                                                              parentPackageName),
                                                     packages, prereleaseToken,
                                                     projectsToExclude)
                   ELSE result.allChanges
         ELSE changes

RECURSIVE UpdateDownstreamFrom(_, _, _, _, _, _, _)

\* for (const depName of downstreamNames), from the i-th name on
UpdateDownstreamFrom(i, downstreamNames, changeName, changes, packages, prereleaseToken, projectsToExclude) ==
  IF i > Len(downstreamNames) THEN changes
  ELSE
    LET pkg == packages[downstreamNames[i]]
        afterDependencies ==
          UpdateDownstreamDependency(pkg.packageName, pkg.dependencies, changeName, changes,
                                     packages, prereleaseToken, projectsToExclude)
        afterDevDependencies ==
          UpdateDownstreamDependency(pkg.packageName, pkg.devDependencies, changeName,
                                     afterDependencies, packages, prereleaseToken,
                                     projectsToExclude)
    IN UpdateDownstreamFrom(i + 1, downstreamNames, changeName, afterDevDependencies,
                            packages, prereleaseToken, projectsToExclude)

\* PublishUtilities._updateDownstreamDependencies
UpdateDownstreamDependencies(changeName, changes, packages, prereleaseToken, projectsToExclude) ==
  LET downstreamNames == packages[changeName].downstreamDependencyProjects
      change == ObjectGet(changes, changeName)
  IN IF GoesDownstream(change, prereleaseToken)
       THEN UpdateDownstreamFrom(1, downstreamNames, changeName, changes, packages,
                                 prereleaseToken, projectsToExclude)
       ELSE changes

RECURSIVE AddChangesFrom(_, _, _, _, _, _)

\* files.forEach and for (const change of changeRequest.changes): the changes of
\* all files in turn
AddChangesFrom(i, requested, changes, packages, prereleaseToken, projectsToExclude) ==
  IF i > Len(requested) THEN changes
  ELSE AddChangesFrom(i + 1, requested,
                      AddChange(requested[i], changes, packages, prereleaseToken,
                                projectsToExclude).allChanges,
                      packages, prereleaseToken, projectsToExclude)

RECURSIVE Flatten(_)

Flatten(files) == IF files = <<>> THEN <<>> ELSE Head(files) \o Flatten(Tail(files))

RECURSIVE PropagateFrom(_, _, _, _, _, _)

\* for (const packageName in allChanges): the keys the hash had when the loop
\* began, in the order of insertion
PropagateFrom(i, names, changes, packages, prereleaseToken, projectsToExclude) ==
  IF i > Len(names) THEN changes
  ELSE PropagateFrom(i + 1, names,
                     UpdateDownstreamDependencies(names[i], changes, packages,
                                                  prereleaseToken, projectsToExclude),
                     packages, prereleaseToken, projectsToExclude)

RECURSIVE StampDownstream(_, _, _, _)

\* depChange.order = Math.max(change.order + 1, depChange.order) for the
\* downstream projects that have a change
StampDownstream(j, deps, packageName, changes) ==
  IF j > Len(deps) THEN changes
  ELSE IF ObjectHas(changes, deps[j])
    THEN LET change == ObjectGet(changes, packageName)
             depChange == ObjectGet(changes, deps[j])
         IN StampDownstream(j + 1, deps, packageName,
                            ObjectSet(changes, deps[j],
                                      [depChange EXCEPT
                                         !.order = MathMax(<<change.order + 1,
                                                             depChange.order>>)]))
    ELSE StampDownstream(j + 1, deps, packageName, changes)

RECURSIVE StampFrom(_, _, _, _, _)

\* the last loop of findChangeRequests: the new version and the orders
StampFrom(i, changes, packages, prereleaseToken, projectsToExclude) ==
  IF i > Len(changes) THEN changes
  ELSE
    LET packageName == changes[i][1]
        change == changes[i][2]
        rushProject == packages[packageName]
        newVersion ==
          IF ShouldSkipVersionBump(rushProject, prereleaseToken, projectsToExclude)
            THEN rushProject.version
          ELSE IF change.changeType >= ChangeType.patch
            THEN SemverInc(rushProject.version, PublishGetReleaseType(change.changeType))
          ELSE rushProject.version
        versioned == ObjectSet(changes, packageName, [change EXCEPT !.newVersion = <<newVersion>>])
    IN StampFrom(i + 1,
                 StampDownstream(1, rushProject.downstreamDependencyProjects, packageName,
                                 versioned),
                 packages, prereleaseToken, projectsToExclude)

\* PublishUtilities.findChangeRequests
FindChangeRequests(packages, files, prereleaseToken, projectsToExclude) ==
  LET requested ==
        AddChangesFrom(1, Flatten(files), <<>>, packages, prereleaseToken,
                       projectsToExclude)
      names == [i \in DOMAIN requested |-> requested[i][1]]
      propagated ==
        PropagateFrom(1, names, requested, packages, prereleaseToken, projectsToExclude)
  IN StampFrom(1, propagated, packages, prereleaseToken, projectsToExclude)

(* ---- the workspaces, change files and options it is checked on ---- *)
MaxChangeFiles == 2   \* the largest number of change files in the changes folder

\* the projects of rush.json, in the order of the file
PackageOrder == <<"a", "b", "c">>

\* does the section name the package with a range that the version of the
\* local project satisfies
DeclaresSatisfied(section, rushProject) ==
  /\ ObjectHas(section, rushProject.packageName)
  /\ SemverSatisfies(rushProject.version, ObjectGet(section, rushProject.packageName))

\* the downstream set of a project: the projects that declare it as a
\* dependency, without cyclic exemption, with a range its version satisfies
DownstreamDependencyProjects(projects, name) ==
  SelectSeq(PackageOrder,
            LAMBDA p :
              /\ p \in DOMAIN projects
              /\ name \notin projects[p].cyclicDependencyProjects
              /\ \/ DeclaresSatisfied(projects[p].dependencies, projects[name])
                 \/ DeclaresSatisfied(projects[p].devDependencies, projects[name]))

\* new RushConfigurationProject(...) of a package.json at version 1.0.0
RushConfigurationProject(name, dependencySection, devDependencySection, shouldPublish, cyclicDependencyProjects) ==
  [packageName |-> name, version |-> <<1, 0, 0>>, dependencies |-> dependencySection,
   devDependencies |-> devDependencySection, shouldPublish |-> shouldPublish,
   cyclicDependencyProjects |-> cyclicDependencyProjects,
   downstreamDependencyProjects |-> <<>>]

\* the workspace as loaded: every project with its downstream set
LoadWorkspace(projects) ==
  [name \in DOMAIN projects |->
     [projects[name] EXCEPT
        !.downstreamDependencyProjects = DownstreamDependencyProjects(projects, name)]]

\* a section with at most one entry
Section(name, ranges) == {<<>>} \cup {<< <<name, range>> >> : range \in ranges}

Workspaces ==
  {LoadWorkspace(
     [a |-> RushConfigurationProject("a", <<>>, <<>>, TRUE, {}),
      b |-> RushConfigurationProject("b", onA, <<>>, TRUE, exempt),
      c |-> RushConfigurationProject("c", onB, devOnA, publishC, {})]) :
     onA \in Section("a", {Caret(<<1, 0, 0>>), Exact(<<1, 0, 0>>),
                           RangeDependency(<<1, 0, 0>>), Caret(<<0, 9, 0>>)}),
     exempt \in {{}, {"a"}},
     onB \in Section("b", {Caret(<<1, 0, 0>>), Exact(<<1, 0, 0>>)}),
     devOnA \in Section("a", {Caret(<<1, 0, 0>>)}),
     publishC \in BOOLEAN}

\* workspaces whose downstream relation has a cycle: b depends on a, and a
\* depends on b, or on c that depends on b
CyclicWorkspaces ==
  {LoadWorkspace(
     [a |-> RushConfigurationProject("a", onCycle, <<>>, TRUE, {}),
      b |-> RushConfigurationProject("b", onA, <<>>, TRUE, {}),
      c |-> RushConfigurationProject("c", onB, <<>>, publishC, {})]) :
     onCycle \in (Section("b", {Caret(<<1, 0, 0>>), Exact(<<1, 0, 0>>)})
                    \cup Section("c", {Caret(<<1, 0, 0>>), Exact(<<1, 0, 0>>)})) \ {<<>>},
     onA \in Section("a", {Caret(<<1, 0, 0>>), Exact(<<1, 0, 0>>)}) \ {<<>>},
     onB \in Section("b", {Caret(<<1, 0, 0>>), Exact(<<1, 0, 0>>)}) \ {<<>>},
     publishC \in BOOLEAN}

\* new PrereleaseToken(prereleaseName, suffixName), or none
PrereleaseTokens ==
  {<<>>, <<[name |-> "pre", isPrerelease |-> TRUE, isSuffix |-> FALSE]>>,
   <<[name |-> "dev", isPrerelease |-> FALSE, isSuffix |-> TRUE]>>}

\* a change of a change file: the package and the "type" string
FileChanges ==
  {[packageName |-> name, type |-> type, changeType |-> <<>>] :
     name \in {"a", "b"}, type \in {"none", "patch", "minor", "major"}}

\* the change files of the changes folder, one change in each
ChangeFolders ==
  UNION {[1..n -> {<<change>> : change \in FileChanges}] : n \in 0..MaxChangeFiles}

PublishInit ==
  /\ NoTaskRunner
  /\ NoBuildTask
  /\ NoInstall
  /\ NoPolicy
  /\ allPackages \in Workspaces
  /\ changeFiles \in ChangeFolders
  /\ publishOptions \in {<<[prereleaseToken |-> token, projectsToExclude |-> exclude]>> :
                            token \in PrereleaseTokens, exclude \in {{}, {"b"}}}
  /\ allChanges = <<>>
  /\ deleted = <<>>

CallFindChangeRequests ==
  /\ allChanges = <<>>
  /\ allChanges' = <<FindChangeRequests(allPackages, changeFiles,
                                        publishOptions[1].prereleaseToken,
                                        publishOptions[1].projectsToExclude)>>
  /\ UNCHANGED <<allPackages, changeFiles, publishOptions, deleted>>
  /\ UNCHANGED <<runnerVars, buildVars, installVars, policyVars>>

PublishNext == CallFindChangeRequests

PublishSpec == PublishInit /\ [][PublishNext]_vars

\* the same call on the workspaces with a cyclic downstream relation
CyclicInit ==
  /\ NoTaskRunner
  /\ NoBuildTask
  /\ NoInstall
  /\ NoPolicy
  /\ allPackages \in CyclicWorkspaces
  /\ changeFiles \in ChangeFolders
  /\ publishOptions \in {<<[prereleaseToken |-> token, projectsToExclude |-> exclude]>> :
                            token \in PrereleaseTokens, exclude \in {{}, {"b"}}}
  /\ allChanges = <<>>
  /\ deleted = <<>>

CyclicSpec == CyclicInit /\ [][PublishNext]_vars

(* ---- the claims about the change requests ---- *)
\* the workspace of the propagation examples: b depends on a and c on b, both
\* with ^1.0.0, everything is published and there is no token
ChainWorkspace ==
  /\ allPackages["b"].dependencies = << <<"a", Caret(<<1, 0, 0>>)>> >>
  /\ allPackages["b"].cyclicDependencyProjects = {}
  /\ allPackages["c"].dependencies = << <<"b", Caret(<<1, 0, 0>>)>> >>
  /\ allPackages["c"].devDependencies = <<>>
  /\ allPackages["c"].shouldPublish
  /\ publishOptions[1] = [prereleaseToken |-> <<>>, projectsToExclude |-> {}]

SingleMinorForA ==
  changeFiles = << <<[packageName |-> "a", type |-> "minor", changeType |-> <<>>]>> >>

\* the change kind of every package of a hash
KindsOf(changes) == {<<changes[i][1], changes[i][2].changeType>> : i \in DOMAIN changes}

\* the same change files in every order
Reorderings(files) ==
  {[i \in DOMAIN files |-> files[f[i]]] :
     f \in {g \in [DOMAIN files -> DOMAIN files] :
              \A i, j \in DOMAIN files : i # j => g[i] # g[j]}}

\* the packages that the change files name
NamedPackages == {change.packageName : change \in Range(Flatten(changeFiles))}

IsSkipped(name) ==
  ShouldSkipVersionBump(allPackages[name], publishOptions[1].prereleaseToken,
                        publishOptions[1].projectsToExclude)

(* C23 as the specification states it: the change kind that findChangeRequests
   gives to each package, named in a change file or reached downstream, is the
   same for every order of the change files, and for a package named in the
   change files (and not skipped) it is the maximum of its incoming kinds. *)
Orig_C23 ==
  allChanges # <<>> =>
    /\ \A files \in Reorderings(changeFiles) :
         KindsOf(FindChangeRequests(allPackages, files, publishOptions[1].prereleaseToken,
                                    publishOptions[1].projectsToExclude))
           = KindsOf(allChanges[1])
    /\ \A name \in NamedPackages :
         ~IsSkipped(name) =>
           LET entry == ObjectGet(allChanges[1], name)
           IN entry.changeType =
                MathMax([i \in DOMAIN entry.changes |-> entry.changes[i].changeType])

\* the second half alone
KindIsMaximum ==
  allChanges # <<>> =>
    \A name \in NamedPackages :
      ~IsSkipped(name) =>
        LET entry == ObjectGet(allChanges[1], name)
        IN entry.changeType =
             MathMax([i \in DOMAIN entry.changes |-> entry.changes[i].changeType])

\* the sections of a package.json that declare a dependency on a package
SectionsOn(name, dependent) ==
  {section \in {allPackages[dependent].dependencies, allPackages[dependent].devDependencies} :
     ObjectHas(section, name)}

\* the kinds of the changes registered for a package
RegisteredKinds(name) ==
  IF ObjectHas(allChanges[1], name)
    THEN {change.changeType : change \in Range(ObjectGet(allChanges[1], name).changes)}
    ELSE {}

(* C24 as the specification states it: when a package B is bumped (its change
   kind is patch or higher), every downstream project D that directly depends
   on B (and is not skipped) has a change registered, of kind patch if the
   range of D for B is not satisfied by the new version of B, D then being
   bumped, and of kind dependency otherwise. *)
Orig_C24 ==
  allChanges # <<>> =>
    \A i \in DOMAIN allChanges[1] :
      LET B == allChanges[1][i][2]
      IN B.changeType >= ChangeType.patch =>
           \A D \in Range(allPackages[B.packageName].downstreamDependencyProjects) :
             \A section \in SectionsOn(B.packageName, D) :
               ~IsSkipped(D) =>
                 IF SemverSatisfies(B.newVersion[1], ObjectGet(section, B.packageName))
                   THEN ChangeType.dependency \in RegisteredKinds(D)
                   ELSE /\ ChangeType.patch \in RegisteredKinds(D)
                        /\ CompareVersions(ObjectGet(allChanges[1], D).newVersion[1],
                                           allPackages[D].version) > 0

\* the example of C24: b depends on a with ^0.9.0 and a is bumped minor
RangeMismatchExample ==
  /\ allChanges # <<>>
  /\ allPackages["b"].dependencies = << <<"a", Caret(<<0, 9, 0>>)>> >>
  /\ allPackages["b"].cyclicDependencyProjects = {}
  /\ publishOptions[1] = [prereleaseToken |-> <<>>, projectsToExclude |-> {}]
  /\ SingleMinorForA

\* in the example b is not downstream of a, 1.0.0 being outside ^0.9.0, and has
\* no change
RangeMismatchLeavesB ==
  RangeMismatchExample =>
    /\ "b" \notin Range(allPackages["a"].downstreamDependencyProjects)
    /\ ~ObjectHas(allChanges[1], "b")

(* C25 as the specification states it: with a, b and c at 1.0.0, b depending
   on a and c on b with ^1.0.0 and one minor change for a, findChangeRequests
   gives a the new version 1.1.0 and order 0, b a dependency change with
   order 1 and c a dependency change with order 2. *)
Orig_C25 ==
  (allChanges # <<>> /\ ChainWorkspace /\ SingleMinorForA) =>
    LET a == ObjectGet(allChanges[1], "a")
        b == ObjectGet(allChanges[1], "b")
        c == ObjectGet(allChanges[1], "c")
    IN /\ ObjectKeys(allChanges[1]) = {"a", "b", "c"}
       /\ a.newVersion = << <<1, 1, 0>> >> /\ a.order = 0
       /\ b.changeType = ChangeType.dependency /\ b.order = 1
       /\ c.changeType = ChangeType.dependency /\ c.order = 2

(* C25, amended: in that workspace findChangeRequests gives a the kind minor,
   the new version 1.1.0 and order 0 and b a dependency change with order 1
   at its version 1.0.0; c has no change, a dependency change of b not being
   passed on. *)
Thm_C25 ==
  (allChanges # <<>> /\ ChainWorkspace /\ SingleMinorForA) =>
    LET a == ObjectGet(allChanges[1], "a")
        b == ObjectGet(allChanges[1], "b")
    IN /\ ObjectKeys(allChanges[1]) = {"a", "b"}
       /\ a.changeType = ChangeType.minor
       /\ a.newVersion = << <<1, 1, 0>> >> /\ a.order = 0
       /\ b.changeType = ChangeType.dependency /\ b.order = 1
       /\ b.newVersion = << <<1, 0, 0>> >>

\* findChangeRequests has run on the chain with the one minor change for a
Wit_C25 ==
  /\ allChanges # <<>>
  /\ ChainWorkspace
  /\ SingleMinorForA
  /\ allPackages["a"].downstreamDependencyProjects = <<"b">>
  /\ allPackages["b"].downstreamDependencyProjects = <<"c">>
  /\ ObjectHas(allChanges[1], "b")

(***************************************************************************)
(* ChangeFiles.deleteAll                                                   *)
(***************************************************************************)
\* a variant that takes a file as soon as one of its changes is included
NamesIncludedOnce(changeRequest, packagesToInclude) ==
  \E i \in DOMAIN changeRequest : changeRequest[i].packageName \in packagesToInclude

\* the filter of deleteAll: false at the first change whose package is not included
NamesOnlyIncluded(changeRequest, packagesToInclude) ==
  \A i \in DOMAIN changeRequest : changeRequest[i].packageName \in packagesToInclude

\* the places, in getFiles(), of the files that deleteAll hands to _deleteFiles;
\* updatedChangelogs is <<>> (undefined) or <<the names of the changelogs>>
FilesToDelete(files, updatedChangelogs) ==
  IF updatedChangelogs # <<>>
    THEN LET packagesToInclude == Range(updatedChangelogs[1])
         IN {i \in DOMAIN files : NamesOnlyIncluded(files[i], packagesToInclude)}
    ELSE DOMAIN files

\* Utilities.deleteFile on each of the files, where shouldDelete is set
DeleteFiles(files, places, shouldDelete) ==
  [count |-> Cardinality(places),
   files |-> IF shouldDelete
               THEN [k \in 1..(Len(files) - Cardinality(places)) |->
                       files[CHOOSE i \in DOMAIN files \ places :
                               Cardinality({j \in DOMAIN files \ places : j < i}) = k - 1]]
               ELSE files]

\* ChangeFiles.deleteAll: the number it returns and the files that are left
DeleteAll(files, shouldDelete, updatedChangelogs) ==
  DeleteFiles(files, FilesToDelete(files, updatedChangelogs), shouldDelete)

\* the change files to delete: none to two changes in each
ChangeRequests ==
  LET change(name) == [packageName |-> name, type |-> "patch", changeType |-> <<>>]
  IN {<<>>, <<change("a")>>, <<change("b")>>, <<change("a"), change("b")>>}

DeleteInit ==
  /\ NoTaskRunner
  /\ NoBuildTask
  /\ NoInstall
  /\ NoPolicy
  /\ allPackages = <<>>
  /\ changeFiles \in UNION {[1..n -> ChangeRequests] : n \in 0..MaxChangeFiles}
  /\ publishOptions = <<>>
  /\ allChanges = <<>>
  /\ deleted = <<>>

\* the updatedChangelogs argument: undefined, or changelogs by name
UpdatedChangelogs == {<<>>, <<<<>>>>, <<<<"a">>>>, <<<<"b">>>>, <<<<"a", "b">>>>}

CallDeleteAll(shouldDelete, updatedChangelogs) ==
  /\ deleted = <<>>
  /\ LET result == DeleteAll(changeFiles, shouldDelete, updatedChangelogs)
     IN /\ changeFiles' = result.files
        /\ deleted' = <<[shouldDelete |-> shouldDelete,
                         updatedChangelogs |-> updatedChangelogs,
                         files |-> changeFiles, count |-> result.count]>>
  /\ UNCHANGED <<allPackages, publishOptions, allChanges>>
  /\ UNCHANGED <<runnerVars, buildVars, installVars, policyVars>>

DeleteNext ==
  \E shouldDelete \in BOOLEAN, updatedChangelogs \in UpdatedChangelogs :
    CallDeleteAll(shouldDelete, updatedChangelogs)

DeleteSpec == DeleteInit /\ [][DeleteNext]_vars

\* has the changelog of every package that the file names been updated
AllChangelogsUpdated(changeRequest) ==
  {change.packageName : change \in Range(changeRequest)}
    \subseteq Range(deleted[1].updatedChangelogs[1])

(* C26: ChangeFiles.deleteAll with the updated changelogs deletes exactly the
   change files all of whose changes name a package whose changelog was
   updated and keeps every other file; with shouldDelete false no file is
   removed; the number it returns is the same in both modes. *)
Thm_C26 ==
  (deleted # <<>> /\ deleted[1].updatedChangelogs # <<>>) =>
    LET before == deleted[1].files
    IN /\ changeFiles =
            IF deleted[1].shouldDelete
              THEN SelectSeq(before, LAMBDA file : ~AllChangelogsUpdated(file))
              ELSE before
       /\ deleted[1].count =
            Cardinality({i \in DOMAIN before : AllChangelogsUpdated(before[i])})
       /\ deleted[1].count =
            DeleteAll(before, ~deleted[1].shouldDelete, deleted[1].updatedChangelogs).count

\* of two files one was deleted, its only package having an updated changelog,
\* and the other, which also names a package without one, was kept
Wit_C26 ==
  /\ deleted # <<>>
  /\ deleted[1].shouldDelete
  /\ deleted[1].updatedChangelogs = <<<<"a">>>>
  /\ Len(deleted[1].files) = 2
  /\ deleted[1].count = 1
  /\ Len(changeFiles) = 1
  /\ Len(changeFiles[1]) = 2

(***************************************************************************)
(* The task runner over project build tasks                                *)
(***************************************************************************)
\* the scripts of the projects: the first declares neither a test nor a build
\* script, the second no clean script, every other one all three
ProjectScripts(task) ==
  CASE task = 1 -> [clean |-> "gulp clean", test |-> ScriptUndefined, build |-> ScriptUndefined]
    [] task = 2 -> [clean |-> ScriptUndefined, test |-> "gulp test", build |-> "gulp build"]
    [] OTHER -> [clean |-> "gulp clean", test |-> "gulp test", build |-> "gulp build"]

\* every task that is Executing counts in _currentActiveTasks until its handler runs
HandlersPending ==
  currentActiveTasks = Cardinality({t \in Range(tasks) : status[t] = Executing})

(* ---- the .catch handler of a started task, called with an Error ---- *)
\* new Set<TaskError>(errors) throws a TypeError for a value that is not
\* iterable: the statements after it are not run
TaskRejectedWithError(task) ==
  /\ task \in Range(tasks)
  /\ status[task] = Executing
  /\ HandlersPending
  /\ currentActiveTasks' = currentActiveTasks - 1
  /\ hasAnyFailures' = TRUE
  /\ UNCHANGED <<tasks, dependencies, dependents, status, criticalPathLength,
                 isIncrementalBuildAllowed, buildQueue, parallelism, promise,
                 startOrder, blockedCount>>
  /\ UNCHANGED <<buildVars, installVars, policyVars, changeVars>>

(* ---- ProjectBuildTask.execute of a started task, and the handler it leads to ---- *)
\* `lastFiles` is the "files" object of the package-deps.json that an earlier
\* run of the same command left in the project folder, <<>> without such a
\* file; `hashed` is what getPackageDepsHash answers, <<>> when it throws
ProjectTaskExecutes(task, scripts, flags, lastFiles, hashed, cleanThrows, code, errorCount, warned) ==
  LET build == GetBuildCommand(flags, scripts)
      deps == GetPackageDependencies(build.command, hashed)
      lastPackageDeps ==
        IF lastFiles = <<>> THEN <<>>
        ELSE <<[files |-> lastFiles[1], arguments |-> build.command]>>
      done == ExecuteTask(lastPackageDeps, build.command, deps,
                          isIncrementalBuildAllowed[task], scripts, cleanThrows)
      result == IF done.result = "pending" THEN CloseResult(code, errorCount, warned)
                ELSE done.result
  IN /\ task \in Range(tasks)
     /\ status[task] = Executing
     /\ IF build.thrown THEN TaskRejectedWithError(task)
        ELSE IF result = "rejected" THEN TaskRejected(task)
        ELSE TaskResolved(task, result)

\* the project folder has no package-deps.json and its files cannot be hashed
ProjectTaskSettles(task, flags, cleanThrows, code, errorCount, warned) ==
  ProjectTaskExecutes(task, ProjectScripts(task), flags, <<>>, <<>>, cleanThrows, code,
                      errorCount, warned)

ProjectTasksSettle ==
  \E task \in Range(tasks), flags \in TaskFlags, cleanThrows \in BOOLEAN,
     code \in ExitCodes, errorCount \in ErrorCounts, warned \in BOOLEAN :
     ProjectTaskSettles(task, flags, cleanThrows, code, errorCount, warned)

ProjectNext ==
  \/ RegisterTask
  \/ RegisterDependencies
  \/ Execute
  \/ ProjectTasksSettle

\* the promise of every started task settles and its handler runs
ProjectSpec == Init /\ [][ProjectNext]_vars /\ WF_vars(ProjectTasksSettle)

(* ---- the scheduler over build tasks of projects that can be skipped ---- *)
\* the scripts of a project that declares all of them
CompleteScripts == [clean |-> "gulp clean", test |-> "gulp test", build |-> "gulp build"]

\* what getPackageDepsHash answers for the files of a project folder
ProjectFiles == [name \in FileNames |-> "H1"]

\* the package-deps.json of the folder: none, the fingerprint of the files as
\* they are, or that of the files before an edit
LastFiles == {<<>>, <<ProjectFiles>>, <<[name \in FileNames |-> "H1'"]>>}

\* the flags of a local build; the clean command does not fail
LocalBuildFlags ==
  [errorDisplayMode |-> "LocalBuild", production |-> FALSE, npmMode |-> FALSE,
   minimalMode |-> FALSE]

IncrementalTasksSettle ==
  \E task \in Range(tasks), lastFiles \in LastFiles, code \in ExitCodes,
     errorCount \in ErrorCounts, warned \in BOOLEAN :
     ProjectTaskExecutes(task, CompleteScripts, LocalBuildFlags, lastFiles,
                         <<ProjectFiles>>, FALSE, code, errorCount, warned)

IncrementalNext ==
  \/ RegisterTask
  \/ RegisterDependencies
  \/ Execute
  \/ IncrementalTasksSettle

\* the runner is constructed with the parallelism ScenarioParallelism
IncrementalSpec == ScenarioInit /\ [][IncrementalNext]_vars

\* the project declares no clean script, or neither a test nor a build script
LacksScripts(task) ==
  LET scripts == ProjectScripts(task)
  IN \/ scripts.clean = ScriptUndefined
     \/ scripts.test = ScriptUndefined /\ scripts.build = ScriptUndefined

FailedAndRejected(task) ==
  /\ task \in Range(tasks)
  /\ status[task] = Failure
  /\ \A d \in TransitiveDependents(task) : status[d] = Blocked
  /\ promise = "rejected"

(* C28: when the manifest of a project declares no clean script, or neither a
   test nor a build script, its build task, once started, ends with status
   Failure, the tasks that transitively depend on it become Blocked, and the
   promise of execute() is eventually rejected. *)
Orig_C28 ==
  \A task \in 1..MaxTasks :
    LacksScripts(task) =>
      ((task \in Range(tasks) /\ status[task] = Executing) ~> FailedAndRejected(task))

\* the project without a clean script alone: its task fails and blocks its
\* dependents, and the promise is rejected unless the handler of the first task threw
CleanMissingFails ==
  (2 \in Range(tasks) /\ status[2] = Executing)
    ~> /\ 2 \in Range(tasks)
       /\ status[2] = Failure
       /\ \A d \in TransitiveDependents(2) : status[d] = Blocked
       /\ promise = "rejected" \/ ~HandlersPending

(***************************************************************************)
(* Further claims about PublishUtilities.findChangeRequests                *)
(***************************************************************************)
\* suffix mode, the exclude set or an unpublished project, read off the inputs
SkipConditions(name) ==
  \/ /\ publishOptions[1].prereleaseToken # <<>>
     /\ publishOptions[1].prereleaseToken[1].isSuffix
  \/ name \in publishOptions[1].projectsToExclude
  \/ ~allPackages[name].shouldPublish

\* the largest kind among the changes added to an entry
LargestKind(entry) ==
  MathMax([i \in DOMAIN entry.changes |-> entry.changes[i].changeType])

(* C34: a package is skipped for version bumping exactly when the token is in
   suffix mode, the package is in the exclude set or it is not publishable.
   For every such package, after all the changes added to it, the aggregated
   kind is none, the new version is the current version and no call of
   _addChange for it reported a change; every other package is reported as
   changed when it is first added and aggregates the largest kind. *)
Thm_C34 ==
  allChanges # <<>> =>
    \A i \in DOMAIN allChanges[1] :
      LET name == allChanges[1][i][1]
          entry == allChanges[1][i][2]
      IN IF SkipConditions(name)
           THEN /\ entry.changeType = ChangeType.none
                /\ entry.newVersion = <<allPackages[name].version>>
                /\ \A change \in Range(entry.changes) : ~change.hasChanged
           ELSE /\ entry.changeType = LargestKind(entry)
                /\ entry.changes[1].hasChanged

\* an excluded package received two changes, one of them a bump, next to a
\* package that is not skipped
Wit_C34 ==
  /\ allChanges # <<>>
  /\ \E i, j \in DOMAIN allChanges[1] :
       /\ SkipConditions(allChanges[1][i][1])
       /\ allChanges[1][i][1] \in publishOptions[1].projectsToExclude
       /\ Len(allChanges[1][i][2].changes) >= 2
       /\ LargestKind(allChanges[1][i][2]) >= ChangeType.patch
       /\ ~SkipConditions(allChanges[1][j][1])
       /\ allChanges[1][j][2].changeType >= ChangeType.patch

\* semver.inc of the current version by the aggregated kind when that is patch
\* or higher, the current version otherwise
VersionForKind(entry) ==
  IF entry.changeType >= ChangeType.patch
    THEN SemverInc(allPackages[entry.packageName].version,
                   PublishGetReleaseType(entry.changeType))
    ELSE allPackages[entry.packageName].version

(* C35 as the specification states it: every package of the result of
   findChangeRequests that is not skipped has the new version semver.inc(current
   version, aggregated kind) when the aggregated kind is patch or higher and
   the current version otherwise, and its newRangeDependency is ">=newVersion
   <next major of newVersion" of that same new version, whatever the order of
   the incoming changes. *)
Orig_C35 ==
  allChanges # <<>> =>
    \A i \in DOMAIN allChanges[1] :
      LET entry == allChanges[1][i][2]
      IN ~SkipConditions(entry.packageName) =>
           /\ entry.newVersion = <<VersionForKind(entry)>>
           /\ entry.newRangeDependency = <<GetNewRangeDependency(VersionForKind(entry))>>

\* the new version alone, which the last loop of findChangeRequests computes
\* again from the aggregated kind
NewVersionForKind ==
  allChanges # <<>> =>
    \A i \in DOMAIN allChanges[1] :
      LET entry == allChanges[1][i][2]
      IN ~SkipConditions(entry.packageName) => entry.newVersion = <<VersionForKind(entry)>>

(* C36 as the specification states it: in the result of findChangeRequests
   over an acyclic downstream relation, for every two changed packages U and D
   with D in the downstream set of U, the order of D is greater than the order
   of U, in whatever order the packages were inserted into the change set. *)
Orig_C36 ==
  allChanges # <<>> =>
    \A i, j \in DOMAIN allChanges[1] :
      LET U == allChanges[1][i][2]
          D == allChanges[1][j][2]
      IN D.packageName \in Range(allPackages[U.packageName].downstreamDependencyProjects)
           => D.order > U.order

\* it holds of the downstream sets of the packages that come earlier in the
\* hash than all of their upstream packages with a change
OrderAboveEarlierUpstream ==
  allChanges # <<>> =>
    \A i, j \in DOMAIN allChanges[1] :
      LET U == allChanges[1][i][2]
          D == allChanges[1][j][2]
      IN ( /\ D.packageName \in
                Range(allPackages[U.packageName].downstreamDependencyProjects)
           /\ \A k \in DOMAIN allChanges[1] :
                U.packageName \in
                  Range(allPackages[allChanges[1][k][1]].downstreamDependencyProjects)
                  => k < i )
           => D.order > U.order

\* the aggregated kind of a package that is not skipped after the first k of
\* its changes
KindAfter(entry, k) == MathMax([i \in 1..k |-> entry.changes[i].changeType])

\* the propagation went on from a package only after a change that added the
\* package to the hash or raised its aggregated kind
RecursesOnProgress ==
  allChanges # <<>> =>
    \A i \in DOMAIN allChanges[1] :
      LET entry == allChanges[1][i][2]
      IN \A k \in DOMAIN entry.changes :
           entry.changes[k].recursed =>
             \/ k = 1
             \/ /\ ~SkipConditions(entry.packageName)
                /\ KindAfter(entry, k) > KindAfter(entry, k - 1)

(* C40: the downstream propagation of findChangeRequests terminates for every
   workspace and change set, also when the downstream relation has a cycle
   and when a prerelease token is set: the call returns its result, and it
   went on from a package only when the package was newly added to the change
   set or its aggregated kind strictly increased. *)
Thm_C40 ==
  /\ RecursesOnProgress
  /\ allChanges = <<>> =>
       LET result == FindChangeRequests(allPackages, changeFiles,
                                        publishOptions[1].prereleaseToken,
                                        publishOptions[1].projectsToExclude)
       IN \A name \in NamedPackages : ObjectHas(result, name)

\* a prerelease token is set, the propagation came back to a package along a
\* cycle and stopped there, and it went on from another package whose kind was
\* raised
Wit_C40 ==
  /\ allChanges # <<>>
  /\ HasValue(publishOptions[1].prereleaseToken)
  /\ \E i, j \in DOMAIN allChanges[1] :
       LET back == allChanges[1][i][2]
           raised == allChanges[1][j][2]
       IN /\ back.packageName \in NamedPackages
          /\ Len(back.changes) >= 2
          /\ ~back.changes[Len(back.changes)].recursed
          /\ \E k \in DOMAIN raised.changes : k > 1 /\ raised.changes[k].recursed

(***************************************************************************)
(* Further claims about TaskRunner                                         *)
(***************************************************************************)
RECURSIVE DependsOnWithin(_, _, _)

\* is there a chain of at most `steps` dependencies from the task to the target
DependsOnWithin(task, target, steps) ==
  /\ steps > 0
  /\ \E d \in dependencies[task] : d = target \/ DependsOnWithin(d, target, steps - 1)

\* a task depends on itself, directly or through other tasks
HasDependencyCycle == \E task \in Range(tasks) : DependsOnWithin(task, task, Len(tasks))

(* C37: when the registered task graph has a dependency cycle, a task that
   depends on itself included, execute() throws the cyclic-dependency error
   and the status of every task is still Ready; when the graph has no cycle
   the check does not throw. *)
Thm_C37 ==
  [][(promise = "none" /\ promise' # "none") =>
       IF HasDependencyCycle
         THEN /\ promise' = "thrown"
              /\ \A task \in Range(tasks) : status'[task] = Ready
         ELSE promise' # "thrown"]_vars

\* execute() threw on a cycle through two tasks, neither of which depends on
\* itself, next to a task outside the cycle
Wit_C37 ==
  /\ promise = "thrown"
  /\ \A task \in Range(tasks) : task \notin dependencies[task]
  /\ \E task \in Range(tasks) : ~DependsOnWithin(task, task, Len(tasks))
  /\ HasDependencyCycle

\* the statuses that a task ends a run with
FinalStatuses == {Success, SuccessWithWarning, Skipped, Failure}

(* C39: in every run the status of a task only moves from Ready to Executing
   and from there to Success, SuccessWithWarning, Skipped or Failure, or from
   Ready to Blocked: a status of Success, SuccessWithWarning, Skipped, Failure
   or Blocked never changes again, and a task that is Executing or finished
   is never marked Blocked. *)
Thm_C39 ==
  [][\A task \in Range(tasks) :
       status'[task] # status[task] =>
         \/ status[task] = Ready /\ status'[task] \in {Executing, Blocked}
         \/ status[task] = Executing /\ status'[task] \in FinalStatuses]_vars

\* a run ended with a failed task, a task blocked by it and a task that had
\* finished before
Wit_C39 ==
  /\ promise = "rejected"
  /\ \E failed, blocked, finished \in Range(tasks) :
       /\ status[failed] = Failure
       /\ status[blocked] = Blocked
       /\ failed \in dependencies[blocked]
       /\ status[finished] \in {Success, SuccessWithWarning, Skipped}

\* a direct dependency of the task finished with Success or SuccessWithWarning
HasSucceededDependency(task) ==
  \E d \in Range(tasks) :
     task \in dependents[d] /\ status[d] \in {Success, SuccessWithWarning}

\* what execute() of the task answers, before any build command runs, when the
\* project folder holds the fingerprint of its files and command line
UnchangedResult(task, flags) ==
  LET build == GetBuildCommand(flags, CompleteScripts)
      deps == GetPackageDependencies(build.command, <<ProjectFiles>>)
  IN ExecuteTask(deps, build.command, deps, isIncrementalBuildAllowed[task],
                 CompleteScripts, FALSE).result

(* C38: within one run of the scheduler over build tasks, a task with a direct
   dependency that finished with Success or SuccessWithWarning does not finish
   Skipped, and while it executes its execute() does not answer Skipped even
   for an unchanged fingerprint and command line. *)
Thm_C38 ==
  \A task \in Range(tasks) :
    HasSucceededDependency(task) =>
      /\ status[task] # Skipped
      /\ status[task] = Executing =>
           \A flags \in TaskFlags : UnchangedResult(task, flags) # Skipped

\* the caller allowed incremental builds, a dependency of a task succeeded and
\* the task has finished
Wit_C38 ==
  \E task, d \in Range(tasks) :
     /\ task \in dependents[d]
     /\ status[d] \in {Success, SuccessWithWarning}
     /\ isIncrementalBuildAllowed[d]
     /\ status[task] \in FinalStatuses

\* a task whose dependencies were all skipped was skipped as well
SkippedAfterSkipped ==
  \E task, d \in Range(tasks) :
     /\ task \in dependents[d]
     /\ status[task] = Skipped
     /\ \A e \in Range(tasks) : task \in dependents[e] => status[e] = Skipped
====
